---- MODULE Spec2Model ----
(***************************************************************************)
(* wasmhub: the runtime cache (src/src/cache.rs) and the runtime loader    *)
(* (src/src/loader.rs) as a state machine.                                 *)
(*                                                                         *)
(* A string is a sequence of tokens: "/" and "." are tokens of their own,  *)
(* every other token is a run of characters holding neither, so that       *)
(* format!("{version}.wasm") and PathBuf::join are computed, not assumed.  *)
(* A path is the sequence of its components from the filesystem root; a    *)
(* component is a string without "/".  The filesystem maps the paths that  *)
(* exist to a directory or to a file with its bytes.  Permission and       *)
(* disk-full failures of the operating system are not modelled: an         *)
(* operation fails only where the tree itself makes it fail.               *)
(*                                                                         *)
(* Specifications: Spec (the loader and the cache it owns), SpecLoader      *)
(* (get_runtime and download_runtime alone, every request completing),     *)
(* SpecCache, SpecRead and SpecList (the CacheManager alone, over more     *)
(* keys, with its read operations, and with several listed versions),      *)
(* SpecCli (handle_get of src/src/bin/wasm-runtime.rs, one run after       *)
(* another), SpecRace (two download_runtime calls storing the same key at  *)
(* once, store taken one system call at a time), SpecRaceRead (the same    *)
(* with a third caller reading the key), SpecParse (Language::from_str),   *)
(* SpecInfo (RuntimeInfo::add_version), SpecAbsolute (the CacheManager     *)
(* with version strings that are absolute paths) and SpecEntry             *)
(* (download_runtime with version entries of every field).                 *)
(***************************************************************************)
EXTENDS Integers, Sequences, FiniteSets, TLC

\* ------------------------------------------------------------------ bounds

\* Longest configured CDN source list.
MaxSources == 2
\* Number of distinct byte contents served or stored.
MaxContents == 3
\* Number of add_version calls made on one RuntimeInfo.
MaxCalls == 5

\* ----------------------------------------------------------------- values

None == [kind |-> "None"]
Some(v) == [kind |-> "Some", val |-> v]

\* The byte contents in play: the first MaxContents strings over the bytes 0
\* and 1 in order of length (the binary digits of i after its leading 1):
\* <<>>, <<0>>, <<1>>, <<0, 0>>, ...
RECURSIVE ContentAt(_)
ContentAt(i) == IF i <= 1 THEN <<>> ELSE Append(ContentAt(i \div 2), i % 2)
Contents == {ContentAt(i) : i \in 1..MaxContents}

\* src/src/runtime.rs: enum Language
Language == {"NodeJs", "Python", "Ruby", "Php", "Go", "Rust"}

as_str(language) ==
    CASE language = "NodeJs" -> "nodejs"
      [] language = "Python" -> "python"
      [] language = "Ruby" -> "ruby"
      [] language = "Php" -> "php"
      [] language = "Go" -> "go"
      [] language = "Rust" -> "rust"

\* impl Display for Language
to_string(language) == as_str(language)

\* Language::all from its last variant to its first.
Language_all_reversed == <<"Rust", "Go", "Php", "Ruby", "Python", "NodeJs">>

\* Language::all
Language_all == <<"NodeJs", "Python", "Ruby", "Php", "Go", "Rust">>

\* The version strings the operations are called with: "1.0", the empty
\* string and "a/b".
Versions == {<<"1", ".", "0">>, <<>>, <<"a", "/", "b">>}
\* The languages the operations are called with.
Languages == {"Python", "Ruby"}

\* The version strings of the read operations: "1.0", and "1.0.wasm/x", whose
\* entry lies in a directory at the path of the entry of "1.0".
ReadVersions == {<<"1", ".", "0">>, <<"1", ".", "0", ".", "wasm", "/", "x">>}

\* The version strings stored before list is called: "1.0" and "2", both of
\* which list finds in their language directory.
ListVersions == {<<"1", ".", "0">>, <<"2">>}
\* The bytes stored under them.
ListContents == {ContentAt(1), ContentAt(2)}

\* Version strings that are absolute paths: "/cache/ruby/1.0", the place of
\* the entry of (Ruby, "1.0") below the cache root, and "/x"; with them "1.0".
AbsoluteVersions ==
    {<<"1", ".", "0">>, <<"/", "cache", "/", "ruby", "/", "1", ".", "0">>,
     <<"/", "x">>}

\* The keys the loader is called with.
LoaderLanguages == {"Python"}
LoaderVersions == {<<"1", ".", "0">>, <<"a", "/", "b">>}

Runtime_new(language, version, path, size, sha256) ==
    [kind |-> "Runtime", language |-> language, version |-> version,
     path |-> path, size |-> size, sha256 |-> sha256]

Ok(v) == [ok |-> TRUE, val |-> v]
Err(e) == [ok |-> FALSE, err |-> e]

\* Error values (src/src/error.rs).
Network(cause, url) == [kind |-> "Network", cause |-> cause, url |-> url]
IntegrityCheckFailed(expected, actual) ==
    [kind |-> "IntegrityCheckFailed", expected |-> expected, actual |-> actual]
ManifestNotFound(language) == [kind |-> "ManifestNotFound", language |-> language]
VersionNotFound(language, version) ==
    [kind |-> "VersionNotFound", language |-> language, version |-> version]
Other(msg) == [kind |-> "Other", msg |-> msg]
Io(cause, path) == [kind |-> "Io", cause |-> cause, path |-> path]

\* ------------------------------------------------------- parsing a language

\* The letters of ASCII.  A string that is parsed is a sequence of
\* characters.
LowerCase ==
    <<"a", "b", "c", "d", "e", "f", "g", "h", "i", "j", "k", "l", "m", "n",
      "o", "p", "q", "r", "s", "t", "u", "v", "w", "x", "y", "z">>
UpperCase ==
    <<"A", "B", "C", "D", "E", "F", "G", "H", "I", "J", "K", "L", "M", "N",
      "O", "P", "Q", "R", "S", "T", "U", "V", "W", "X", "Y", "Z">>

\* char::to_lowercase and char::to_uppercase, on the characters in play.
char_to_lowercase(c) ==
    IF \E i \in DOMAIN UpperCase : UpperCase[i] = c
    THEN LowerCase[CHOOSE i \in DOMAIN UpperCase : UpperCase[i] = c]
    ELSE c
char_to_uppercase(c) ==
    IF \E i \in DOMAIN LowerCase : LowerCase[i] = c
    THEN UpperCase[CHOOSE i \in DOMAIN LowerCase : LowerCase[i] = c]
    ELSE c

\* str::to_lowercase
to_lowercase(s) == [i \in DOMAIN s |-> char_to_lowercase(s[i])]

\* str::chars of the canonical names of as_str.
chars(name) ==
    CASE name = "nodejs" -> <<"n", "o", "d", "e", "j", "s">>
      [] name = "python" -> <<"p", "y", "t", "h", "o", "n">>
      [] name = "ruby" -> <<"r", "u", "b", "y">>
      [] name = "php" -> <<"p", "h", "p">>
      [] name = "go" -> <<"g", "o">>
      [] name = "rust" -> <<"r", "u", "s", "t">>

\* The arms of the match of from_str, in their order: the patterns of an arm
\* and the Language it gives.
Arms ==
    <<[pattern |-> {<<"n", "o", "d", "e", "j", "s">>, <<"n", "o", "d", "e">>,
                    <<"n", "o", "d", "e", ".", "j", "s">>},
       language |-> "NodeJs"],
      [pattern |-> {<<"p", "y", "t", "h", "o", "n">>, <<"p", "y">>},
       language |-> "Python"],
      [pattern |-> {<<"r", "u", "b", "y">>, <<"r", "b">>},
       language |-> "Ruby"],
      [pattern |-> {<<"p", "h", "p">>},
       language |-> "Php"],
      [pattern |-> {<<"g", "o">>, <<"g", "o", "l", "a", "n", "g">>},
       language |-> "Go"],
      [pattern |-> {<<"r", "u", "s", "t">>, <<"r", "s">>},
       language |-> "Rust"]>>

\* The String a failed parse carries: format!("Unknown language: {}", s).
Unknown(s) == [kind |-> "String", text |-> <<"Unknown language: ">> \o s]

\* Error::InvalidLanguage
InvalidLanguage(text) == [kind |-> "InvalidLanguage", text |-> text]

\* impl From<String> for Error
Error_from(e) == InvalidLanguage(e.text)

\* The arms whose patterns hold the string.
Matching(l) == {i \in DOMAIN Arms : l \in Arms[i].pattern}

\* from_str matching the string as it is given.
from_str_exact(s) ==
    IF Matching(s) = {} THEN Err(Unknown(s))
    ELSE Ok(Arms[CHOOSE i \in Matching(s) : \A j \in Matching(s) : i <= j].language)

\* from_str taking the first arm one of whose patterns the string begins
\* with.
from_str_starts_with(s) ==
    LET l == to_lowercase(s)
        begins == {i \in DOMAIN Arms :
                      \E w \in Arms[i].pattern :
                          Len(w) <= Len(l) /\ SubSeq(l, 1, Len(w)) = w}
    IN IF begins = {} THEN Err(Unknown(s))
       ELSE Ok(Arms[CHOOSE i \in begins : \A j \in begins : i <= j].language)

\* impl FromStr for Language: the first arm that holds the lower-cased
\* string, or Err of a String.
from_str(s) ==
    LET l == to_lowercase(s)
    IN IF Matching(l) = {} THEN Err(Unknown(s))
       ELSE Ok(Arms[CHOOSE i \in Matching(l) : \A j \in Matching(l) : i <= j].language)

\* A word in every letter case.
CaseVariants(w) ==
    {[i \in DOMAIN w |-> IF i \in U THEN char_to_uppercase(w[i]) ELSE w[i]] :
        U \in SUBSET DOMAIN w}

\* Strings no arm has a pattern for: the empty string, the two of the test,
\* and strings that begin or end like a pattern.
Unmatched ==
    {<<>>, <<"u", "n", "k", "n", "o", "w", "n">>,
     <<"j", "a", "v", "a", "s", "c", "r", "i", "p", "t">>,
     <<"j", "s">>, <<"p">>, <<"p", "y", "t">>,
     <<"p", "y", "t", "h", "o", "n", "3">>,
     <<" ", "p", "y">>, <<"p", "y", " ">>,
     <<"n", "o", "d", "e", "-", "j", "s">>,
     <<"n", "o", "d", "e", "j", "s", ".">>,
     <<"r">>, <<"u", "s", "t">>, <<"g", "o", "l">>, <<"c">>}

\* The strings from_str is called with: every pattern in every letter case,
\* and the unmatched strings in every letter case.
ParseInputs ==
    UNION {CaseVariants(w) : w \in UNION {Arms[i].pattern : i \in DOMAIN Arms}}
        \cup UNION {CaseVariants(w) : w \in Unmatched}

\* ------------------------------------------------------------------ paths

\* Path::components of a relative string: the runs between "/" tokens,
\* empty runs dropped.
RECURSIVE Components(_, _, _)
Components(s, i, cur) ==
    IF i > Len(s)
    THEN IF cur = <<>> THEN <<>> ELSE <<cur>>
    ELSE IF s[i] = "/"
         THEN (IF cur = <<>> THEN <<>> ELSE <<cur>>) \o Components(s, i + 1, <<>>)
         ELSE Components(s, i + 1, Append(cur, s[i]))

\* PathBuf::join: an absolute argument replaces the path.
join(path, s) ==
    IF s # <<>> /\ Head(s) = "/"
    THEN Components(s, 1, <<>>)
    ELSE path \o Components(s, 1, <<>>)

\* Path::parent, of a path that has one (path # <<>>).
parent(path) == SubSeq(path, 1, Len(path) - 1)

Prefixes(path) == {SubSeq(path, 1, n) : n \in 1..Len(path)}

IsPrefix(p, q) == Len(p) <= Len(q) /\ SubSeq(q, 1, Len(p)) = p

\* Path::file_name: the last component.
file_name(path) == path[Len(path)]

\* The position of the last "." of a file name, 0 when it has none.
LastDot(name) ==
    IF \E i \in DOMAIN name : name[i] = "."
    THEN CHOOSE i \in DOMAIN name :
             name[i] = "." /\ \A j \in DOMAIN name : name[j] = "." => j <= i
    ELSE 0

\* Path::extension: what follows the last "." of the file name; none when the
\* name has no "." or its only "." is its first character.
extension(path) ==
    LET name == file_name(path)
    IN IF LastDot(name) <= 1 THEN None
       ELSE Some(SubSeq(name, LastDot(name) + 1, Len(name)))

\* Path::file_stem: what precedes the last "." of the file name; the whole
\* name when extension is none.
file_stem(path) ==
    LET name == file_name(path)
    IN IF LastDot(name) <= 1 THEN name
       ELSE SubSeq(name, 1, LastDot(name) - 1)

\* The cache root the CacheManager is constructed with.
cache_dir == <<<<"cache">>>>

\* ------------------------------------------------------------- filesystem

Dir == [kind |-> "dir"]
File(data) == [kind |-> "file", data |-> data]

exists(fs, path) == path = <<>> \/ path \in DOMAIN fs
is_dir(fs, path) == path = <<>> \/ (path \in DOMAIN fs /\ fs[path].kind = "dir")
is_file(fs, path) == path \in DOMAIN fs /\ fs[path].kind = "file"

\* fs::read_dir: the entries of a directory; the order they come in is the
\* filesystem's.
read_dir(fs, path) ==
    {p \in DOMAIN fs : Len(p) = Len(path) + 1 /\ IsPrefix(path, p)}

\* The orders a set of directory entries can be iterated in.
Orders(S) ==
    {o \in [1..Cardinality(S) -> S] :
        \A i \in DOMAIN o : \A j \in DOMAIN o : o[i] = o[j] => i = j}

\* fs::create_dir_all: fails, creating nothing, when the path or one of its
\* ancestors is a file.
create_dir_all(fs, path) ==
    IF \E p \in Prefixes(path) : is_file(fs, p)
    THEN [ok |-> FALSE, err |-> Io("NotADirectory", path), fs |-> fs]
    ELSE [ok |-> TRUE,
          fs |-> [p \in DOMAIN fs \cup Prefixes(path) |->
                     IF p \in DOMAIN fs THEN fs[p] ELSE Dir]]

\* write leaving a file that exists as it is.
write_keep(fs, path, data) ==
    IF path = <<>> \/ is_dir(fs, path)
    THEN [ok |-> FALSE, err |-> Io("IsADirectory", path), fs |-> fs]
    ELSE IF ~is_dir(fs, SubSeq(path, 1, Len(path) - 1))
    THEN [ok |-> FALSE, err |-> Io("NotFound", path), fs |-> fs]
    ELSE [ok |-> TRUE,
          fs |-> [p \in DOMAIN fs \cup {path} |->
                     IF p \in DOMAIN fs THEN fs[p] ELSE File(data)]]

\* fs::write: creates or truncates the file and writes all of the bytes.
write(fs, path, data) ==
    IF path = <<>> \/ is_dir(fs, path)
    THEN [ok |-> FALSE, err |-> Io("IsADirectory", path), fs |-> fs]
    ELSE IF ~is_dir(fs, parent(path))
    THEN [ok |-> FALSE, err |-> Io("NotFound", path), fs |-> fs]
    ELSE [ok |-> TRUE,
          fs |-> [p \in DOMAIN fs \cup {path} |->
                     IF p = path THEN File(data) ELSE fs[p]]]

\* File::create without truncation: the bytes of a file that exists stay.
File_open(fs, path) ==
    IF path = <<>> \/ is_dir(fs, path)
    THEN [ok |-> FALSE, err |-> Io("IsADirectory", path), fs |-> fs]
    ELSE IF ~is_dir(fs, parent(path))
    THEN [ok |-> FALSE, err |-> Io("NotFound", path), fs |-> fs]
    ELSE [ok |-> TRUE,
          fs |-> [p \in DOMAIN fs \cup {path} |->
                     IF p \in DOMAIN fs THEN fs[p] ELSE File(<<>>)]]

\* File::create, the first half of fs::write: the file is created, or
\* truncated to no bytes.
File_create(fs, path) ==
    IF path = <<>> \/ is_dir(fs, path)
    THEN [ok |-> FALSE, err |-> Io("IsADirectory", path), fs |-> fs]
    ELSE IF ~is_dir(fs, parent(path))
    THEN [ok |-> FALSE, err |-> Io("NotFound", path), fs |-> fs]
    ELSE [ok |-> TRUE,
          fs |-> [p \in DOMAIN fs \cup {path} |->
                     IF p = path THEN File(<<>>) ELSE fs[p]]]

\* One write of the loop of write_all: the bytes go to the file at the
\* offset of the handle, whatever the file holds there by now; a gap before
\* the offset reads as zeros.
write_at(old, off, bytes) ==
    LET end == off + Len(bytes)
        len == IF Len(old) > end THEN Len(old) ELSE end
    IN [i \in 1..len |->
           IF off < i /\ i <= end THEN bytes[i - off]
           ELSE IF i <= Len(old) THEN old[i] ELSE 0]

\* fs::remove_file
remove_file(fs, path) ==
    IF is_file(fs, path)
    THEN [ok |-> TRUE, fs |-> [p \in DOMAIN fs \ {path} |-> fs[p]]]
    ELSE [ok |-> FALSE,
          err |-> Io(IF exists(fs, path) THEN "IsADirectory" ELSE "NotFound", path),
          fs |-> fs]

\* fs::remove_dir in the place of remove_dir_all: a directory that holds
\* something is not removed.
remove_dir(fs, path) ==
    IF is_dir(fs, path) /\ \A q \in DOMAIN fs : IsPrefix(path, q) => q = path
    THEN [ok |-> TRUE, fs |-> [p \in DOMAIN fs \ {path} |-> fs[p]]]
    ELSE [ok |-> FALSE,
          err |-> Io(IF is_dir(fs, path) THEN "DirectoryNotEmpty"
                     ELSE IF exists(fs, path) THEN "NotADirectory" ELSE "NotFound",
                     path),
          fs |-> fs]

\* fs::remove_dir_all
remove_dir_all(fs, path) ==
    IF is_dir(fs, path)
    THEN [ok |-> TRUE,
          fs |-> [p \in {q \in DOMAIN fs : ~IsPrefix(path, q)} |-> fs[p]]]
    ELSE [ok |-> FALSE,
          err |-> Io(IF exists(fs, path) THEN "NotADirectory" ELSE "NotFound", path),
          fs |-> fs]

\* ----------------------------------------------------------------- digest

\* The read buffer of compute_sha256.
BufferSize == 8192

\* Sha256::update: the running hash absorbs the bytes one after another.
RECURSIVE update(_, _)
update(h, bytes) ==
    IF bytes = <<>> THEN h
    ELSE update((h * 3 + Head(bytes) + 1) % 65536, Tail(bytes))

Sha256_new == 1

\* finalize, formatted {:x}: the digest string, represented by its value.
finalize(h) == h

\* read_loop hashing one byte less than each read returned.
RECURSIVE read_loop_short(_, _, _)
read_loop_short(data, pos, hasher) ==
    LET n == IF Len(data) - pos < BufferSize THEN Len(data) - pos ELSE BufferSize
    IN IF n = 0 THEN hasher
       ELSE read_loop_short(data, pos + n,
                            update(hasher, SubSeq(data, pos + 1, pos + n - 1)))

\* The read loop of compute_sha256: chunks of at most BufferSize bytes until
\* a read returns 0.
RECURSIVE read_loop(_, _, _)
read_loop(data, pos, hasher) ==
    LET n == IF Len(data) - pos < BufferSize THEN Len(data) - pos ELSE BufferSize
    IN IF n = 0 THEN hasher
       ELSE read_loop(data, pos + n, update(hasher, SubSeq(data, pos + 1, pos + n)))

\* CacheManager::compute_sha256
compute_sha256(fs, path) ==
    IF ~exists(fs, path) THEN Err(Io("NotFound", path))
    ELSE IF ~is_file(fs, path) THEN Err(Io("IsADirectory", path))
    ELSE Ok(finalize(read_loop(fs[path].data, 0, Sha256_new)))

\* RuntimeLoader::compute_hash
compute_hash(data) == finalize(update(Sha256_new, data))

\* ------------------------------------------------------------ CacheManager

\* CacheManager::get_path
get_path(language, version) ==
    join(join(cache_dir, <<as_str(language)>>), version \o <<".", "wasm">>)

\* fs::metadata(path).len()
metadata_len(fs, path) ==
    IF is_file(fs, path) THEN Len(fs[path].data) ELSE 0

\* get giving a descriptor with an empty digest when the file cannot be read.
get_unwrap_or_default(fs, language, version) ==
    LET path == get_path(language, version)
        sha256 == compute_sha256(fs, path)
    IN IF ~exists(fs, path) THEN None
       ELSE Runtime_new(language, version, path, metadata_len(fs, path),
                        IF sha256.ok THEN sha256.val ELSE 0)

\* CacheManager::get
get(fs, language, version) ==
    LET path == get_path(language, version)
        sha256 == compute_sha256(fs, path)
    IN IF ~exists(fs, path) THEN None
       ELSE IF ~sha256.ok THEN None
       ELSE Runtime_new(language, version, path, metadata_len(fs, path), sha256.val)

\* CacheManager::store: the result and the filesystem it leaves.
store(fs, language, version, data) ==
    LET path == get_path(language, version)
        made == IF path # <<>> THEN create_dir_all(fs, parent(path))
                ELSE [ok |-> TRUE, fs |-> fs]
        written == write(made.fs, path, data)
        sha256 == compute_sha256(written.fs, path)
    IN IF ~made.ok THEN [res |-> Err(made.err), fs |-> made.fs]
       ELSE IF ~written.ok THEN [res |-> Err(written.err), fs |-> written.fs]
       ELSE IF ~sha256.ok THEN [res |-> Err(sha256.err), fs |-> written.fs]
       ELSE [res |-> Ok(Runtime_new(language, version, path, Len(data), sha256.val)),
             fs |-> written.fs]

\* clear without the path.exists() test.
clear_unchecked(fs, language, version) ==
    LET removed == remove_file(fs, get_path(language, version))
    IN IF removed.ok THEN [res |-> Ok(<<>>), fs |-> removed.fs]
       ELSE [res |-> Err(removed.err), fs |-> fs]

\* CacheManager::clear
clear(fs, language, version) ==
    LET path == get_path(language, version)
        removed == remove_file(fs, path)
    IN IF exists(fs, path)
       THEN IF removed.ok THEN [res |-> Ok(<<>>), fs |-> removed.fs]
            ELSE [res |-> Err(removed.err), fs |-> fs]
       ELSE [res |-> Ok(<<>>), fs |-> fs]

\* CacheManager::clear_all
clear_all(fs) ==
    LET removed == remove_dir_all(fs, cache_dir)
    IN IF exists(fs, cache_dir)
       THEN IF removed.ok THEN [res |-> Ok(<<>>), fs |-> removed.fs]
            ELSE [res |-> Err(removed.err), fs |-> fs]
       ELSE [res |-> Ok(<<>>), fs |-> fs]

\* The body of `for entry in fs::read_dir(&lang_dir)?` for one entry: the
\* descriptor pushed, or None when the entry is skipped.
list_entry(fs, language, path) ==
    IF ~is_file(fs, path) \/ extension(path) # Some(<<"wasm">>) THEN None
    ELSE get(fs, language, file_stem(path))

\* What the loop over the languages can push from the given language on, one
\* sequence for each order the directories can be read in.
RECURSIVE list_from(_, _)
list_from(fs, languages) ==
    IF languages = <<>> THEN {<<>>}
    ELSE LET language == Head(languages)
             lang_dir == join(cache_dir, <<as_str(language)>>)
             pushed == {p \in read_dir(fs, lang_dir) :
                           list_entry(fs, language, p) # None}
         IN {[i \in DOMAIN o |-> list_entry(fs, language, o[i])] \o rest :
                o \in Orders(pushed), rest \in list_from(fs, Tail(languages))}

\* CacheManager::list: the results it can return, one for each order the
\* directories can be read in.  read_dir fails on a language directory that
\* is a file.
list(fs) ==
    LET lang_dir(language) == join(cache_dir, <<as_str(language)>>)
        failing == {i \in DOMAIN Language_all : is_file(fs, lang_dir(Language_all[i]))}
        first == CHOOSE i \in failing : \A j \in failing : i <= j
    IN IF ~exists(fs, cache_dir) THEN {Ok(<<>>)}
       ELSE IF failing # {}
       THEN {Err(Io("NotADirectory", lang_dir(Language_all[first])))}
       ELSE {Ok(runtimes) : runtimes \in list_from(fs, Language_all)}

\* verify_integrity comparing with the digest the descriptor records.
verify_integrity_recorded(fs, runtime, expected_sha256) ==
    IF runtime.sha256 # expected_sha256
    THEN Err(IntegrityCheckFailed(expected_sha256, runtime.sha256))
    ELSE Ok(<<>>)

\* CacheManager::verify_integrity
verify_integrity(fs, runtime, expected_sha256) ==
    LET actual_sha256 == compute_sha256(fs, runtime.path)
    IN IF ~actual_sha256.ok THEN Err(actual_sha256.err)
       ELSE IF actual_sha256.val # expected_sha256
       THEN Err(IntegrityCheckFailed(expected_sha256, actual_sha256.val))
       ELSE Ok(<<>>)

\* ------------------------------------------------------------------ loader

GITHUB_RELEASES_BASE == "https://github.com/anistark/wasm-runtime/releases/download"
JSDELIVR_BASE == "https://cdn.jsdelivr.net/gh/anistark/wasm-runtime@latest"

CdnSource == {"GitHubReleases", "JsDelivr"}

base_url(source) ==
    IF source = "GitHubReleases" THEN GITHUB_RELEASES_BASE ELSE JSDELIVR_BASE

\* RuntimeLoader::build_download_url
build_download_url(source, language, version) ==
    IF source = "GitHubReleases"
    THEN <<base_url(source), "/v">> \o version \o <<"/", as_str(language), "-">>
             \o version \o <<".wasm">>
    ELSE <<base_url(source), "/runtimes/", as_str(language), "/">>
             \o version \o <<".wasm">>

\* The url of fetch_global_manifest for a source.
global_manifest_url(source) ==
    IF source = "GitHubReleases"
    THEN <<base_url(source), "/latest/manifest.json">>
    ELSE <<base_url(source), "/manifest.json">>

\* The url of fetch_runtime_manifest for a source.
runtime_manifest_url(source, language) ==
    IF source = "GitHubReleases"
    THEN <<base_url(source), "/latest/runtimes/", as_str(language), "/manifest.json">>
    ELSE <<base_url(source), "/runtimes/", as_str(language), "/manifest.json">>

\* What a GET can end in.  fetch_json: send fails, the status is not a
\* success, or response.json() cannot decode the body; all three are a
\* reqwest::Error, converted by `?` to Error::Network.
JsonFailures == {"transport", "status", "decode"}
\* download_from_url: send or the read of the body fails, or the status is not
\* a success.
DownloadFailures == {"transport", "status"}

\* The version entries a manifest may hold: the digest of any content, and a
\* size that download_runtime never reads.
Digests == {compute_hash(data) : data \in Contents}
RuntimeVersions == [sha256 : Digests, size : {0}]

\* The per-language manifests over a set of version entries: a language name
\* and at most one entry.
ManifestsOver(entries) ==
    {[language |-> as_str(l), versions |-> f] :
        l \in LoaderLanguages,
        f \in UNION {[S -> entries] :
                        S \in {{}} \cup {{v} : v \in LoaderVersions}}}

\* The per-language manifests a source may serve.
RuntimeManifests == ManifestsOver(RuntimeVersions)

\* Version entries with every field of RuntimeVersion, each field taking two
\* values: the url is the one build_download_url gives for jsDelivr, or
\* another one; the size is the length of some served content, or of none.
FullRuntimeVersions ==
    [file : {<<"python", ".", "wasm">>, <<"other", ".", "wasm">>},
     size : {1, 7},
     sha256 : Digests,
     released : {<<"2024-01-01">>, <<"2025-06-30">>},
     wasi : BOOLEAN,
     features : {<<>>, <<<<"threads">>>>},
     url : {build_download_url("JsDelivr", "Python", <<"1", ".", "0">>),
            <<"https://mirror.example", "/", "python", ".", "wasm">>}]
FullRuntimeManifests == ManifestsOver(FullRuntimeVersions)

\* get_version falling back to some other entry of the manifest.
get_version_any(manifest, version) ==
    IF version \in DOMAIN manifest.versions THEN manifest.versions[version]
    ELSE IF DOMAIN manifest.versions # {}
    THEN manifest.versions[CHOOSE v \in DOMAIN manifest.versions : TRUE]
    ELSE None

\* RuntimeManifest::get_version
get_version(manifest, version) ==
    IF version \in DOMAIN manifest.versions THEN manifest.versions[version] ELSE None

\* The global manifests a source may serve: at most one language entry, of
\* the language asked for or of another one.
RuntimeInfos == [latest : LoaderVersions, lts : {None, <<"1", ".", "0">>}]
GlobalManifests ==
    {[version |-> <<"1">>, languages |-> f] :
        f \in UNION {[S -> RuntimeInfos] :
                        S \in {{}} \cup {{as_str(l)} : l \in Languages}}}

\* get_language falling back to the entry of another language.
get_language_any(manifest, name) ==
    IF name \in DOMAIN manifest.languages THEN manifest.languages[name]
    ELSE IF DOMAIN manifest.languages # {}
    THEN manifest.languages[CHOOSE n \in DOMAIN manifest.languages : TRUE]
    ELSE None

\* GlobalManifest::get_language
get_language(manifest, name) ==
    IF name \in DOMAIN manifest.languages THEN manifest.languages[name] ELSE None

\* RuntimeInfo::new
RuntimeInfo_new(latest_version, source, license) ==
    [latest |-> latest_version, lts |-> None, versions |-> <<>>,
     source |-> source, license |-> license]

\* Vec::contains
contains(versions, version) == \E i \in DOMAIN versions : versions[i] = version

\* add_version without the contains test.
add_version_push(runtime_info, version) ==
    [runtime_info EXCEPT !.versions = Append(@, version)]

\* RuntimeInfo::add_version
add_version(runtime_info, version) ==
    IF ~contains(runtime_info.versions, version)
    THEN [runtime_info EXCEPT !.versions = Append(@, version)]
    ELSE runtime_info

\* The versions add_version is called with: "20.2.0", "18.19.0" and "1.0".
InfoVersions ==
    {<<"20", ".", "2", ".", "0">>, <<"18", ".", "19", ".", "0">>, <<"1", ".", "0">>}

\* loop_exit surfacing the fallback whatever was recorded.
loop_exit_fallback(last, fallback) == Err(fallback)

\* last_error.unwrap_or_else(|| fallback), as the Err a fallback loop ends in.
loop_exit(last, fallback) == Err(IF last = None THEN fallback ELSE last)

\* ------------------------------------------------------------------- state

VARIABLES
    fs,            \* the filesystem: path -> Dir or File(bytes)
    cdn_sources,   \* RuntimeLoader.cdn_sources, fixed at construction
    pc,            \* "idle", the loop a call awaits a response in, or "done"
    call,          \* the operation in progress or just returned
    idx,           \* position in cdn_sources of the source being requested
    version_info,  \* download_runtime's version_info
    last_error,    \* the loop's last_error
    result,        \* what the call returned
    log,           \* the requests of the call with their responses, in order
    fs0,           \* the filesystem when the call began
    last_store,    \* per key: the bytes of the latest store since the key was
                   \* last cleared, or None
    frame,         \* the locals of handle_get while it runs, or None
    tasks,         \* the concurrent download_runtime calls: where each is in
                   \* its store, with its bytes
    written,       \* the concurrent calls in the order their fs::write returned
    new_info       \* a RuntimeInfo under construction (RuntimeInfo::new, then
                   \* add_version calls), or None

vars == <<fs, cdn_sources, pc, call, idx, version_info, last_error, result, log,
          fs0, last_store, frame, tasks, written, new_info>>

Keys == Languages \X (Versions \cup ReadVersions \cup ListVersions)

\* No call is in progress.
NoCall == [name |-> "none"]

EmptyFs == [p \in {} |-> Dir]

\* The two concurrent callers.
TaskIds == {1, 2}

\* A caller that has not reached its store.
NoTask == [pc |-> "idle"]

Init ==
    /\ fs \in {EmptyFs, [p \in {cache_dir} |-> Dir]}
    /\ cdn_sources \in UNION {[1..n -> CdnSource] : n \in 0..MaxSources}
    /\ pc = "idle"
    /\ call = NoCall
    /\ idx = 0
    /\ version_info = None
    /\ last_error = None
    /\ result = None
    /\ log = <<>>
    /\ fs0 = fs
    /\ last_store = [k \in Keys |-> None]
    /\ frame = None
    /\ tasks = [t \in TaskIds |-> NoTask]
    /\ written = <<>>
    /\ new_info = None

\* The call returns res, leaving the filesystem fs1.
Finish(c, res, fs1, lg, ls) ==
    /\ pc' = "done"
    /\ call' = c
    /\ result' = res
    /\ fs' = fs1
    /\ log' = lg
    /\ last_store' = ls
    /\ idx' = 0
    /\ version_info' = None
    /\ last_error' = None
    /\ UNCHANGED <<cdn_sources, fs0, frame, tasks, written, new_info>>

\* The call awaits the response of source i in loop p.
Await(c, p, i, vi, le, lg) ==
    /\ pc' = p
    /\ call' = c
    /\ idx' = i
    /\ version_info' = vi
    /\ last_error' = le
    /\ log' = lg
    /\ UNCHANGED <<fs, cdn_sources, result, fs0, last_store, frame, tasks, written,
                   new_info>>

\* EnterLoop with the download loop starting at the source that delivered
\* the manifest.
EnterLoop_at_manifest_source(c, p, vi, lg, fallback) ==
    IF cdn_sources = <<>>
    THEN Finish(c, loop_exit(None, fallback), fs, lg, last_store)
    ELSE Await(c, p, IF p = "download" THEN idx ELSE 1, vi, None, lg)

\* `for source in &self.cdn_sources` is entered: the first request is sent,
\* or the list is empty and the loop falls through to its exit.
EnterLoop(c, p, vi, lg, fallback) ==
    IF cdn_sources = <<>>
    THEN Finish(c, loop_exit(None, fallback), fs, lg, last_store)
    ELSE Await(c, p, 1, vi, None, lg)

\* NextSource asking the same source again.
NextSource_retry(e, lg, fallback) ==
    IF idx = Len(cdn_sources)
    THEN Finish(call, loop_exit(e, fallback), fs, lg, last_store)
    ELSE Await(call, pc, idx, version_info, e, lg)

\* NextSource keeping the first error instead of the last.
NextSource_first_error(e, lg, fallback) ==
    LET kept == IF last_error = None THEN e ELSE last_error
    IN IF idx = Len(cdn_sources)
       THEN Finish(call, loop_exit(kept, fallback), fs, lg, last_store)
       ELSE Await(call, pc, idx + 1, version_info, kept, lg)

\* NextSource asking the source that failed once more and recording nothing
\* of the request.
NextSource_same(e, lg, fallback) ==
    Await(call, pc, idx, version_info, e, log)

\* NextSource going on to the next source without recording the error.
NextSource_unrecorded(e, lg, fallback) ==
    IF idx = Len(cdn_sources)
    THEN Finish(call, loop_exit(last_error, fallback), fs, lg, last_store)
    ELSE Await(call, pc, idx + 1, version_info, last_error, lg)

\* Err(e) => { last_error = Some(e); continue; }
NextSource(e, lg, fallback) ==
    IF idx = Len(cdn_sources)
    THEN Finish(call, loop_exit(e, fallback), fs, lg, last_store)
    ELSE Await(call, pc, idx + 1, version_info, e, lg)

Entry(kind, url, response) ==
    [kind |-> kind, source |-> idx, url |-> url, response |-> response]

Failed(cause) == [ok |-> FALSE, cause |-> cause]

\* ------------------------------------------------------------ CacheManager

Stored(data) == [kind |-> "Stored", data |-> data]

\* last_store after a store that returned Ok.
AfterStore(res, language, version, data) ==
    IF res.ok THEN [last_store EXCEPT ![<<language, version>>] = Stored(data)]
    ELSE last_store

CallGet(language, version) ==
    /\ pc = "idle"
    /\ Finish([name |-> "get", language |-> language, version |-> version],
              get(fs, language, version), fs, <<>>, last_store)

CallStore(language, version, data) ==
    /\ pc = "idle"
    /\ LET s == store(fs, language, version, data)
       IN Finish([name |-> "store", language |-> language, version |-> version,
                  data |-> data],
                 s.res, s.fs, <<>>, AfterStore(s.res, language, version, data))

CallClear(language, version) ==
    /\ pc = "idle"
    /\ LET c == clear(fs, language, version)
       IN Finish([name |-> "clear", language |-> language, version |-> version],
                 c.res, c.fs, <<>>,
                 IF c.res.ok THEN [last_store EXCEPT ![<<language, version>>] = None]
                 ELSE last_store)

CallClearAll ==
    /\ pc = "idle"
    /\ LET c == clear_all(fs)
       IN Finish([name |-> "clear_all"], c.res, c.fs, <<>>,
                 IF c.res.ok THEN [k \in Keys |-> None] ELSE last_store)

CallList ==
    /\ pc = "idle"
    /\ \E res \in list(fs) : Finish([name |-> "list"], res, fs, <<>>, last_store)

CallGetPath(language, version) ==
    /\ pc = "idle"
    /\ Finish([name |-> "get_path", language |-> language, version |-> version],
              get_path(language, version), fs, <<>>, last_store)

CallComputeSha256(path) ==
    /\ pc = "idle"
    /\ Finish([name |-> "compute_sha256", path |-> path],
              compute_sha256(fs, path), fs, <<>>, last_store)

\* verify_integrity removing a file that fails the comparison.
CallVerifyIntegrity_evict(runtime, expected_sha256) ==
    /\ pc = "idle"
    /\ LET res == verify_integrity(fs, runtime, expected_sha256)
       IN Finish([name |-> "verify_integrity", runtime |-> runtime,
                  expected_sha256 |-> expected_sha256],
                 res,
                 IF ~res.ok /\ res.err.kind = "IntegrityCheckFailed"
                 THEN remove_file(fs, runtime.path).fs ELSE fs,
                 <<>>, last_store)

CallVerifyIntegrity(runtime, expected_sha256) ==
    /\ pc = "idle"
    /\ Finish([name |-> "verify_integrity", runtime |-> runtime,
               expected_sha256 |-> expected_sha256],
              verify_integrity(fs, runtime, expected_sha256), fs, <<>>, last_store)

\* ------------------------------------------------------------ RuntimeLoader

\* download_runtime answering from the entry an earlier call has left.
download_runtime_reuse(c) ==
    IF get(fs, c.language, c.version) # None
    THEN Finish(c, Ok(get(fs, c.language, c.version)), fs, <<>>, last_store)
    ELSE EnterLoop(c, "fetch_runtime_manifest", None, <<>>,
                   ManifestNotFound(to_string(c.language)))

\* RuntimeLoader::download_runtime, up to its first request.
download_runtime(c) ==
    EnterLoop(c, "fetch_runtime_manifest", None, <<>>,
              ManifestNotFound(to_string(c.language)))

CallDownloadRuntime(language, version) ==
    /\ pc = "idle"
    /\ download_runtime([name |-> "download_runtime", language |-> language,
                         version |-> version])

\* get_runtime without the cache lookup.
CallGetRuntime_no_cache(language, version) ==
    /\ pc = "idle"
    /\ download_runtime([name |-> "get_runtime", language |-> language,
                         version |-> version])

\* RuntimeLoader::get_runtime
CallGetRuntime(language, version) ==
    /\ pc = "idle"
    /\ LET c == [name |-> "get_runtime", language |-> language, version |-> version]
           runtime == get(fs, language, version)
       IN IF runtime # None
          THEN Finish(c, Ok(runtime), fs, <<>>, last_store)
          ELSE download_runtime(c)

\* fetch_runtime_manifest: the response of source idx, a failure or one of
\* the manifests, and what download_runtime does with a manifest.
RuntimeManifestResponseOf(manifests) ==
    /\ pc = "fetch_runtime_manifest"
    /\ LET url == runtime_manifest_url(cdn_sources[idx], call.language)
           fallback == ManifestNotFound(to_string(call.language))
       IN \/ \E cause \in JsonFailures :
                NextSource(Network(cause, url),
                           Append(log, Entry("runtime_manifest", url, Failed(cause))),
                           fallback)
          \/ \E manifest \in manifests :
                LET lg == Append(log, Entry("runtime_manifest", url, Ok(manifest)))
                    info == get_version(manifest, call.version)
                IN IF info = None
                   THEN Finish(call,
                               Err(VersionNotFound(to_string(call.language),
                                                   call.version)),
                               fs, lg, last_store)
                   ELSE EnterLoop(call, "download", info, lg,
                                  Other("All CDN sources failed"))

RuntimeManifestResponse == RuntimeManifestResponseOf(RuntimeManifests)

\* DownloadOk with a digest mismatch treated as one more failed source.
DownloadOk_next_source(data, lg) ==
    LET computed_hash == compute_hash(data)
        s == store(fs, call.language, call.version, data)
    IN IF computed_hash # version_info.sha256
       THEN IF idx = Len(cdn_sources)
            THEN Finish(call,
                        Err(IntegrityCheckFailed(version_info.sha256, computed_hash)),
                        fs, lg, last_store)
            ELSE Await(call, pc, idx + 1, version_info,
                       IntegrityCheckFailed(version_info.sha256, computed_hash), lg)
       ELSE Finish(call, s.res, s.fs, lg,
                   AfterStore(s.res, call.language, call.version, data))

\* DownloadOk without the comparison of the digests.
DownloadOk_unverified(data, lg) ==
    LET s == store(fs, call.language, call.version, data)
    IN Finish(call, s.res, s.fs, lg,
              AfterStore(s.res, call.language, call.version, data))

\* DownloadOk storing the bytes before it compares the digests.
DownloadOk_store_first(data, lg) ==
    LET computed_hash == compute_hash(data)
        s == store(fs, call.language, call.version, data)
    IN IF ~s.res.ok THEN Finish(call, s.res, s.fs, lg, last_store)
       ELSE IF computed_hash # version_info.sha256
       THEN Finish(call,
                   Err(IntegrityCheckFailed(version_info.sha256, computed_hash)),
                   s.fs, lg, last_store)
       ELSE Finish(call, s.res, s.fs, lg,
                   AfterStore(s.res, call.language, call.version, data))

\* DownloadOk taking an error of store as one more failed source.
DownloadOk_store_continue(data, lg) ==
    LET computed_hash == compute_hash(data)
        s == store(fs, call.language, call.version, data)
    IN IF computed_hash # version_info.sha256
       THEN Finish(call,
                   Err(IntegrityCheckFailed(version_info.sha256, computed_hash)),
                   fs, lg, last_store)
       ELSE IF ~s.res.ok
       THEN NextSource(s.res.err, lg, Other("All CDN sources failed"))
       ELSE Finish(call, s.res, s.fs, lg,
                   AfterStore(s.res, call.language, call.version, data))

\* DownloadOk refusing bytes whose length is not the declared size.
DownloadOk_size_checked(data, lg) ==
    LET computed_hash == compute_hash(data)
        s == store(fs, call.language, call.version, data)
    IN IF computed_hash # version_info.sha256 \/ Len(data) # version_info.size
       THEN Finish(call,
                   Err(IntegrityCheckFailed(version_info.sha256, computed_hash)),
                   fs, lg, last_store)
       ELSE Finish(call, s.res, s.fs, lg,
                   AfterStore(s.res, call.language, call.version, data))

\* The Ok(data) arm of the download loop: verify, then store.
DownloadOk(data, lg) ==
    LET computed_hash == compute_hash(data)
        s == store(fs, call.language, call.version, data)
    IN IF computed_hash # version_info.sha256
       THEN Finish(call,
                   Err(IntegrityCheckFailed(version_info.sha256, computed_hash)),
                   fs, lg, last_store)
       ELSE Finish(call, s.res, s.fs, lg,
                   AfterStore(s.res, call.language, call.version, data))

\* The download loop: the response of source idx.
DownloadResponse ==
    /\ pc = "download"
    /\ LET url == build_download_url(cdn_sources[idx], call.language, call.version)
       IN \/ \E cause \in DownloadFailures :
                NextSource(Network(cause, url),
                           Append(log, Entry("binary", url, Failed(cause))),
                           Other("All CDN sources failed"))
          \/ \E data \in Contents :
                DownloadOk(data, Append(log, Entry("binary", url, Ok(data))))

\* RuntimeLoader::list_available
CallListAvailable ==
    /\ pc = "idle"
    /\ EnterLoop([name |-> "list_available"], "fetch_global_manifest", None, <<>>,
                 Other("Failed to fetch manifest"))

\* RuntimeLoader::get_latest_version, up to its first request.
CallGetLatestVersion(language) ==
    /\ pc = "idle"
    /\ EnterLoop([name |-> "get_latest_version", language |-> language],
                 "fetch_global_manifest", None, <<>>,
                 Other("Failed to fetch manifest"))

\* fetch_global_manifest: the response of source idx, and what the caller
\* (list_available or get_latest_version) does with a manifest.
GlobalManifestResponse ==
    /\ pc = "fetch_global_manifest"
    /\ LET url == global_manifest_url(cdn_sources[idx])
       IN \/ \E cause \in JsonFailures :
                NextSource(Network(cause, url),
                           Append(log, Entry("global_manifest", url, Failed(cause))),
                           Other("Failed to fetch manifest"))
          \/ \E manifest \in GlobalManifests :
                LET lg == Append(log, Entry("global_manifest", url, Ok(manifest)))
                    runtime_info ==
                        IF call.name = "get_latest_version"
                        THEN get_language(manifest, as_str(call.language))
                        ELSE None
                IN IF call.name = "list_available"
                   THEN Finish(call, Ok(manifest), fs, lg, last_store)
                   ELSE IF runtime_info = None
                   THEN Finish(call, Err(ManifestNotFound(to_string(call.language))),
                               fs, lg, last_store)
                   ELSE Finish(call, Ok(runtime_info.latest), fs, lg, last_store)

\* ---------------------------------------------------------------- handle_get

\* The version selectors of the command line.
latest == <<"latest">>
lts == <<"lts">>

\* The locals of handle_get.  fs_before and manifest are history: the
\* filesystem when handle_get began, and the global manifest the selector was
\* resolved from.
Frame(language, version, force, stage, actual_version, res, fs_before) ==
    [language |-> language, version |-> version, force |-> force,
     stage |-> stage, actual_version |-> actual_version, result |-> res,
     fs_before |-> fs_before, manifest |-> None]

\* handle_get taking every version string as an exact version.
HandleGet_verbatim(language, version, force) ==
    /\ pc = "idle"
    /\ frame = None
    /\ frame' = Frame(language, version, force, "run", version, None, fs)
    /\ UNCHANGED <<fs, cdn_sources, pc, call, idx, version_info, last_error, result,
                   log, fs0, last_store, tasks, written, new_info>>

\* handle_get up to the resolution of the version: `if force { .. }`, and the
\* else branch of `let actual_version = ..`.
HandleGet(language, version, force) ==
    /\ pc = "idle"
    /\ frame = None
    /\ LET cached == force /\ get(fs, language, version) # None
           cleared == IF cached THEN clear(fs, language, version)
                      ELSE [res |-> Ok(<<>>), fs |-> fs]
           exact == version # latest /\ version # lts
       IN /\ fs' = cleared.fs
          /\ fs0' = cleared.fs
          /\ last_store' =
                IF cached /\ cleared.res.ok /\ <<language, version>> \in Keys
                THEN [last_store EXCEPT ![<<language, version>>] = None]
                ELSE last_store
          /\ frame' =
                IF ~cleared.res.ok
                THEN Frame(language, version, force, "returned", None,
                           cleared.res, fs)
                ELSE Frame(language, version, force,
                           IF exact THEN "run" ELSE "resolve",
                           IF exact THEN version ELSE None, None, fs)
    /\ UNCHANGED <<cdn_sources, pc, call, idx, version_info, last_error, result, log,
                   tasks, written, new_info>>

\* version == "latest": loader.get_latest_version(language) is called.
HandleGetLatest ==
    /\ frame # None
    /\ frame.stage = "resolve"
    /\ frame.version = latest
    /\ CallGetLatestVersion(frame.language)

\* version == "lts": loader.list_available() is called.
HandleGetLts ==
    /\ frame # None
    /\ frame.stage = "resolve"
    /\ frame.version = lts
    /\ CallListAvailable

\* The value of `let actual_version = ..` once the loader's call has
\* returned: Ok(version), or the error handle_get leaves with.
actual_version(c, res, language) ==
    LET runtime_info == get_language(res.val, as_str(language))
    IN IF ~res.ok THEN Err(res.err)
       ELSE IF c.name = "get_latest_version" THEN Ok(res.val)
       ELSE IF runtime_info = None
       THEN Err(Other(<<"No manifest found for ", to_string(language)>>))
       ELSE IF runtime_info.lts = None
       THEN Err(Other(<<"No LTS version available for ", to_string(language)>>))
       ELSE Ok(runtime_info.lts)

\* The loader's call of the resolution has returned.
HandleGetResolved ==
    /\ frame # None
    /\ frame.stage = "resolve"
    /\ pc = "done"
    /\ LET resolved == actual_version(call, result, frame.language)
           delivered == IF log # <<>> /\ log[Len(log)].response.ok
                        THEN log[Len(log)].response.val ELSE None
       IN frame' =
             IF resolved.ok
             THEN [frame EXCEPT !.stage = "run", !.actual_version = resolved.val,
                                !.manifest = delivered]
             ELSE [frame EXCEPT !.stage = "returned", !.result = resolved,
                                !.manifest = delivered]
    /\ pc' = "idle"
    /\ call' = NoCall
    /\ result' = None
    /\ log' = <<>>
    /\ fs0' = fs
    /\ UNCHANGED <<fs, cdn_sources, idx, version_info, last_error, last_store,
                   tasks, written, new_info>>

\* loader.get_runtime(language, &actual_version) is called.
HandleGetRuntime ==
    /\ frame # None
    /\ frame.stage = "run"
    /\ CallGetRuntime(frame.language, frame.actual_version)

\* handle_get has its result: that of get_runtime, or an earlier error.
Returned ==
    /\ frame # None
    /\ \/ frame.stage = "returned" /\ pc = "idle"
       \/ frame.stage = "run" /\ pc = "done"

\* handle_get returns.
HandleGetReturn ==
    /\ Returned
    /\ frame' = None
    /\ pc' = "idle"
    /\ call' = NoCall
    /\ result' = None
    /\ log' = <<>>
    /\ fs0' = fs
    /\ UNCHANGED <<fs, cdn_sources, idx, version_info, last_error, last_store,
                   tasks, written, new_info>>

\* The caller takes the result; the next call may begin.
Return ==
    /\ pc = "done"
    /\ pc' = "idle"
    /\ call' = NoCall
    /\ result' = None
    /\ log' = <<>>
    /\ fs0' = fs
    /\ UNCHANGED <<fs, cdn_sources, idx, version_info, last_error, last_store,
                   frame, tasks, written, new_info>>

\* The loader and the cache it owns, called by one client.
Next ==
    \/ \E language \in LoaderLanguages, version \in LoaderVersions :
          CallGet(language, version)
    \/ \E language \in LoaderLanguages, version \in LoaderVersions, data \in Contents :
          CallStore(language, version, data)
    \/ \E language \in LoaderLanguages, version \in LoaderVersions :
          CallClear(language, version)
    \/ CallClearAll
    \/ \E language \in LoaderLanguages, version \in LoaderVersions :
          CallGetRuntime(language, version)
    \/ \E language \in LoaderLanguages, version \in LoaderVersions :
          CallDownloadRuntime(language, version)
    \/ RuntimeManifestResponse
    \/ DownloadResponse
    \/ CallListAvailable
    \/ \E language \in LoaderLanguages : CallGetLatestVersion(language)
    \/ GlobalManifestResponse
    \/ Return

Spec == Init /\ [][Next]_vars

\* The CacheManager alone, called by one client, over every key.
InitCache == Init /\ cdn_sources = <<"GitHubReleases", "JsDelivr">>

NextCache ==
    \/ \E language \in Languages, version \in Versions : CallGet(language, version)
    \/ \E language \in Languages, version \in Versions, data \in Contents :
          CallStore(language, version, data)
    \/ \E language \in Languages, version \in Versions : CallClear(language, version)
    \/ CallClearAll
    \/ CallList
    \/ Return

SpecCache == InitCache /\ [][NextCache]_vars

\* list over a cache in which a language may hold two entries list finds.
NextList ==
    \/ \E language \in Languages, version \in ListVersions, data \in ListContents :
          CallStore(language, version, data)
    \/ \E language \in Languages, version \in ListVersions :
          CallClear(language, version)
    \/ CallClearAll
    \/ CallList
    \/ Return

SpecList == InitCache /\ [][NextList]_vars

\* One call of download_runtime, the manifests holding entries with every
\* field of RuntimeVersion.
RuntimeManifestResponseFull == RuntimeManifestResponseOf(FullRuntimeManifests)

NextEntry ==
    \/ \E language \in LoaderLanguages, version \in LoaderVersions :
          CallDownloadRuntime(language, version)
    \/ RuntimeManifestResponseFull
    \/ DownloadResponse

SpecEntry == Init /\ [][NextEntry]_vars

\* The CacheManager called with version strings that are absolute paths.
NextAbsolute ==
    \/ \E language \in Languages, version \in AbsoluteVersions, data \in Contents :
          CallStore(language, version, data)
    \/ \E language \in Languages, version \in AbsoluteVersions :
          CallClear(language, version)
    \/ \E language \in Languages, version \in AbsoluteVersions :
          CallGet(language, version)
    \/ Return

SpecAbsolute == InitCache /\ [][NextAbsolute]_vars

\* The descriptors verify_integrity is called with: those a store of some
\* content under some key returns.
ReadRuntimes ==
    {Runtime_new(language, version, get_path(language, version), Len(data),
                 compute_hash(data)) :
        language \in Languages, version \in ReadVersions, data \in Contents}

\* The paths compute_sha256 is called with.
ReadPaths == {get_path(language, version) :
                 language \in Languages, version \in ReadVersions}

\* The CacheManager with its read operations, called by one client.
NextRead ==
    \/ \E language \in Languages, version \in ReadVersions, data \in Contents :
          CallStore(language, version, data)
    \/ \E language \in Languages, version \in ReadVersions :
          CallClear(language, version)
    \/ CallClearAll
    \/ \E language \in Languages, version \in ReadVersions :
          CallGet(language, version)
    \/ CallList
    \/ \E language \in Languages, version \in ReadVersions :
          CallGetPath(language, version)
    \/ \E path \in ReadPaths : CallComputeSha256(path)
    \/ \E runtime \in ReadRuntimes, expected_sha256 \in Digests :
          CallVerifyIntegrity(runtime, expected_sha256)
    \/ Return

SpecRead == InitCache /\ [][NextRead]_vars

\* The version arguments of the command line.
CliVersions == {latest, lts, <<"1", ".", "0">>}

\* The cache a run of the command line finds: the entries earlier runs have
\* stored, given as Stored(bytes) or None for each key.
RECURSIVE Populate(_, _)
Populate(entries, keys) ==
    IF keys = {} THEN EmptyFs
    ELSE LET k == CHOOSE key \in keys : TRUE
             rest == Populate(entries, keys \ {k})
         IN IF entries[k] = None THEN rest
            ELSE store(rest, k[1], k[2], entries[k].data).fs

LoaderKeys == LoaderLanguages \X LoaderVersions

\* wasm-runtime get, one run after another; the loader is built with the
\* default sources.
InitCli ==
    /\ \E entries \in [LoaderKeys -> {Stored(data) : data \in Contents} \cup {None}] :
          /\ fs = Populate(entries, LoaderKeys)
          /\ last_store = [k \in Keys |->
                               IF k \in LoaderKeys THEN entries[k] ELSE None]
    /\ cdn_sources = <<"GitHubReleases", "JsDelivr">>
    /\ pc = "idle"
    /\ call = NoCall
    /\ idx = 0
    /\ version_info = None
    /\ last_error = None
    /\ result = None
    /\ log = <<>>
    /\ fs0 = fs
    /\ frame = None
    /\ tasks = [t \in TaskIds |-> NoTask]
    /\ written = <<>>
    /\ new_info = None

NextCli ==
    \/ \E language \in LoaderLanguages, version \in CliVersions, force \in BOOLEAN :
          HandleGet(language, version, force)
    \/ HandleGetLatest
    \/ HandleGetLts
    \/ GlobalManifestResponse
    \/ HandleGetResolved
    \/ HandleGetRuntime
    \/ RuntimeManifestResponse
    \/ DownloadResponse
    \/ HandleGetReturn

SpecCli == InitCli /\ [][NextCli]_vars

\* A key whose entry lies in a directory at the path of the entry of
\* (Python, "1.0"): version "1.0.wasm/x".
NestedKey == <<"Python", <<"1", ".", "0", ".", "wasm", "/", "x">>>>

\* The loader over the cache earlier calls have left: empty, or holding one
\* entry, of a key the loader is called with or of NestedKey.
InitLoader ==
    /\ \E key \in LoaderKeys \cup {NestedKey} :
          \E entry \in {None} \cup {Stored(data) : data \in Contents} :
              /\ fs = IF entry = None THEN EmptyFs
                      ELSE store(EmptyFs, key[1], key[2], entry.data).fs
              /\ last_store = [k \in Keys |-> IF k = key THEN entry ELSE None]
    /\ cdn_sources \in UNION {[1..n -> CdnSource] : n \in 0..MaxSources}
    /\ pc = "idle"
    /\ call = NoCall
    /\ idx = 0
    /\ version_info = None
    /\ last_error = None
    /\ result = None
    /\ log = <<>>
    /\ fs0 = fs
    /\ frame = None
    /\ tasks = [t \in TaskIds |-> NoTask]
    /\ written = <<>>
    /\ new_info = None

\* One call of get_runtime or download_runtime.
NextLoader ==
    \/ \E language \in LoaderLanguages, version \in LoaderVersions :
          CallGetRuntime(language, version)
    \/ \E language \in LoaderLanguages, version \in LoaderVersions :
          CallDownloadRuntime(language, version)
    \/ RuntimeManifestResponse
    \/ DownloadResponse

\* Every request that awaits its response gets one: a body, or an error.
EveryRequestCompletes ==
    /\ WF_vars(RuntimeManifestResponse)
    /\ WF_vars(DownloadResponse)

SpecLoader == InitLoader /\ [][NextLoader]_vars /\ EveryRequestCompletes

\* s.parse::<Language>()
CallFromStr(s) ==
    /\ pc = "idle"
    /\ Finish([name |-> "from_str", s |-> s], from_str(s), fs, <<>>, last_store)

\* Language::from_str, called with one string after another.
NextParse ==
    \/ \E s \in ParseInputs : CallFromStr(s)
    \/ Return

SpecParse == InitCache /\ [][NextParse]_vars

\* info.add_version(version) on the RuntimeInfo under construction; log keeps
\* the versions passed, in the order of the calls.
AddVersion(version) ==
    /\ new_info # None
    /\ Len(log) < MaxCalls
    /\ new_info' = add_version(new_info, version)
    /\ log' = Append(log, version)
    /\ UNCHANGED <<fs, cdn_sources, pc, call, idx, version_info, last_error, result,
                   fs0, last_store, frame, tasks, written>>

\* A RuntimeInfo as RuntimeInfo::new returns it, with no version.
InitInfo ==
    /\ new_info = RuntimeInfo_new(<<"20", ".", "2", ".", "0">>, "https://nodejs.org",
                                  "MIT")
    /\ fs = EmptyFs
    /\ cdn_sources = <<"GitHubReleases", "JsDelivr">>
    /\ pc = "idle"
    /\ call = NoCall
    /\ idx = 0
    /\ version_info = None
    /\ last_error = None
    /\ result = None
    /\ log = <<>>
    /\ fs0 = fs
    /\ last_store = [k \in Keys |-> None]
    /\ frame = None
    /\ tasks = [t \in TaskIds |-> NoTask]
    /\ written = <<>>

NextInfo == \E version \in InfoVersions : AddVersion(version)

SpecInfo == InitInfo /\ [][NextInfo]_vars

\* ------------------------------------------------------- concurrent stores

\* The key the two concurrent download_runtime calls are for.
RaceLanguage == "Python"
RaceVersion == <<"1", ".", "0">>

\* The bytes the two calls may have downloaded: <<1>> and <<0, 0>>.  Each call
\* compares them with the digest of the manifest it fetched itself.
RaceContents == {ContentAt(3), ContentAt(4)}

\* A call inside CacheManager::store: the step it is at, its bytes, how many
\* of them it has written, what store returned, and whether its fs::write
\* ran while the other call was inside its own.
Task(at, data, off, res, overlapped) ==
    [pc |-> at, data |-> data, off |-> off, result |-> res,
     overlapped |-> overlapped]

\* What the actions of the concurrent calls leave alone.
RaceUnchanged ==
    UNCHANGED <<cdn_sources, pc, call, idx, version_info, last_error, result, log,
                fs0, last_store, frame, new_info>>

\* The Ok(data) arm of the download loop of call t: the bytes have the
\* digest of the manifest of the call, self.cache.store is entered.
StoreEnter(t, data) ==
    /\ tasks[t].pc = "idle"
    /\ tasks' = [tasks EXCEPT ![t] = Task("create_dir_all", data, 0, None, FALSE)]
    /\ UNCHANGED <<fs, written>>
    /\ RaceUnchanged

\* store of call t: fs::create_dir_all(parent)?
StoreCreateDirAll(t) ==
    /\ tasks[t].pc = "create_dir_all"
    /\ LET made == create_dir_all(fs, parent(get_path(RaceLanguage, RaceVersion)))
       IN /\ fs' = made.fs
          /\ tasks' = [tasks EXCEPT ![t] =
                          IF made.ok THEN [@ EXCEPT !.pc = "create"]
                          ELSE [@ EXCEPT !.pc = "returned", !.result = Err(made.err)]]
    /\ UNCHANGED written
    /\ RaceUnchanged

\* store of call t: fs::write opens the file.  With no bytes to write,
\* write_all returns at once.
StoreCreate(t) ==
    /\ tasks[t].pc = "create"
    /\ LET created == File_create(fs, get_path(RaceLanguage, RaceVersion))
           during == \E u \in TaskIds \ {t} : tasks[u].pc = "write_all"
       IN /\ fs' = created.fs
          /\ tasks' =
                [u \in TaskIds |->
                    IF u # t
                    THEN IF during THEN [tasks[u] EXCEPT !.overlapped = TRUE]
                         ELSE tasks[u]
                    ELSE IF ~created.ok
                    THEN [tasks[t] EXCEPT !.pc = "returned",
                                          !.result = Err(created.err)]
                    ELSE [tasks[t] EXCEPT
                             !.pc = IF tasks[t].data = <<>> THEN "compute_sha256"
                                    ELSE "write_all",
                             !.overlapped = during]]
          /\ written' = IF created.ok /\ tasks[t].data = <<>>
                        THEN Append(written, t) ELSE written
    /\ RaceUnchanged

\* store of call t: one write of write_all, of as many of the remaining
\* bytes as the system takes; after the last one fs::write returns.
StoreWrite(t) ==
    /\ tasks[t].pc = "write_all"
    /\ LET path == get_path(RaceLanguage, RaceVersion)
           task == tasks[t]
       IN \E n \in 1..(Len(task.data) - task.off) :
             /\ fs' = [fs EXCEPT ![path] =
                          File(write_at(fs[path].data, task.off,
                                        SubSeq(task.data, task.off + 1, task.off + n)))]
             /\ tasks' = [tasks EXCEPT ![t] =
                             [@ EXCEPT !.off = task.off + n,
                                       !.pc = IF task.off + n = Len(task.data)
                                              THEN "compute_sha256" ELSE "write_all"]]
             /\ written' = IF task.off + n = Len(task.data)
                           THEN Append(written, t) ELSE written
    /\ RaceUnchanged

\* store of call t: the size is that of the bytes passed in, the digest is
\* read back from the file; store and download_runtime return.
StoreComputeSha256(t) ==
    /\ tasks[t].pc = "compute_sha256"
    /\ LET path == get_path(RaceLanguage, RaceVersion)
           sha256 == compute_sha256(fs, path)
       IN tasks' = [tasks EXCEPT ![t] =
                       [@ EXCEPT !.pc = "returned",
                                 !.result =
                                     IF ~sha256.ok THEN Err(sha256.err)
                                     ELSE Ok(Runtime_new(RaceLanguage, RaceVersion, path,
                                                         Len(tasks[t].data),
                                                         sha256.val))]]
    /\ UNCHANGED <<fs, written>>
    /\ RaceUnchanged

\* Two download_runtime calls for one key, each at its store, run by two
\* threads or two processes.
NextRace ==
    \/ \E t \in TaskIds, data \in RaceContents : StoreEnter(t, data)
    \/ \E t \in TaskIds : StoreCreateDirAll(t)
    \/ \E t \in TaskIds : StoreCreate(t)
    \/ \E t \in TaskIds : StoreWrite(t)
    \/ \E t \in TaskIds : StoreComputeSha256(t)

SpecRace == InitCache /\ [][NextRace]_vars

\* A get or get_runtime of the key of the concurrent calls.  tasks and file
\* are history: where the concurrent stores were, and what the file of the key
\* held (None for no file), when the cache was read.
RaceCall(name) ==
    LET path == get_path(RaceLanguage, RaceVersion)
    IN [name |-> name, language |-> RaceLanguage, version |-> RaceVersion,
        tasks |-> tasks,
        file |-> IF is_file(fs, path) THEN Some(fs[path].data) ELSE None]

\* CacheManager::get of the key, by a third caller.
RaceGet ==
    /\ pc = "idle"
    /\ Finish(RaceCall("get"), get(fs, RaceLanguage, RaceVersion), fs, <<>>,
              last_store)

\* RuntimeLoader::get_runtime of the key, by a third caller.
RaceGetRuntime ==
    /\ pc = "idle"
    /\ LET runtime == get(fs, RaceLanguage, RaceVersion)
       IN IF runtime # None
          THEN Finish(RaceCall("get_runtime"), Ok(runtime), fs, <<>>, last_store)
          ELSE download_runtime(RaceCall("get_runtime"))

\* The two concurrent stores of one key, and a third caller that reads the
\* key once, through get or get_runtime, while they run.
NextRaceRead ==
    \/ NextRace
    \/ RaceGet
    \/ RaceGetRuntime
    \/ RuntimeManifestResponse
    \/ DownloadResponse

SpecRaceRead == InitCache /\ [][NextRaceRead]_vars

\* ----------------------------------------------------------------- claims

\* The entries of the log that belong to one fallback loop.
EntriesOf(kind) == SelectSeq(log, LAMBDA e : e.kind = kind)

\* The call is one of the loader's.
LoaderCall ==
    call.name \in {"download_runtime", "get_runtime", "list_available",
                   "get_latest_version"}

\* The call runs download_runtime (directly, or through get_runtime).
Downloading == call.name \in {"download_runtime", "get_runtime"}

\* Entry i of the log is a delivered per-language manifest.
IsManifest(i) == log[i].kind = "runtime_manifest" /\ log[i].response.ok

\* What the manifest delivered in entry i declares for the requested version.
Declared(i) == get_version(log[i].response.val, call.version)

\* Entry i of the log is a binary GET that succeeded.
IsBinary(i) == log[i].kind = "binary" /\ log[i].response.ok

\* Entry i is a successful binary GET whose bytes do not hash to the digest
\* the manifest of entry m declares.
Mismatch(m, i) ==
    /\ IsManifest(m)
    /\ IsBinary(i)
    /\ Declared(m) # None
    /\ compute_hash(log[i].response.val) # Declared(m).sha256

\* C1: a successful GET whose bytes do not hash to the digest the manifest
\* declares ends download_runtime at once with IntegrityCheckFailed{expected:
\* the manifest's digest, actual: the computed digest}: that GET is the last
\* request of the call, no recorded source error is surfaced and the
\* filesystem is what it was when the call began.
C1_MismatchFailsAtOnce ==
    \A m \in DOMAIN log : \A i \in DOMAIN log :
        Mismatch(m, i) =>
            /\ pc = "done"
            /\ i = Len(log)
            /\ result = Err(IntegrityCheckFailed(Declared(m).sha256,
                                                 compute_hash(log[i].response.val)))
            /\ fs = fs0

\* C1 witness: the second source served bytes of the wrong digest after the
\* first source's error had been recorded.
C1_Witness ==
    /\ pc = "done"
    /\ \E m \in DOMAIN log : \E i \in DOMAIN log :
          Mismatch(m, i) /\ log[i].source = 2 /\ Len(cdn_sources) = 2

\* C2: when download_runtime returns Ok, the file of the key holds the bytes
\* of the first binary GET that succeeded, every binary GET before it failed,
\* the bytes hash to the digest the delivered manifest declares, and the
\* returned descriptor and a following get carry that digest.
C2_SuccessStoresVerifiedBytes ==
    (pc = "done" /\ Downloading /\ log # <<>> /\ result.ok) =>
        \E m \in DOMAIN log : \E i \in DOMAIN log :
            LET path == get_path(call.language, call.version)
                cached == get(fs, call.language, call.version)
            IN /\ IsManifest(m)
               /\ IsBinary(i)
               /\ \A j \in DOMAIN log : (log[j].kind = "binary" /\ j # i) =>
                      (j < i /\ ~log[j].response.ok)
               /\ log[i].url = build_download_url(cdn_sources[log[i].source],
                                                  call.language, call.version)
               /\ is_file(fs, path)
               /\ fs[path].data = log[i].response.val
               /\ compute_hash(fs[path].data) = Declared(m).sha256
               /\ result.val.sha256 = Declared(m).sha256
               /\ cached # None
               /\ cached.sha256 = Declared(m).sha256

\* C2 witness: a download that succeeded at the second source.
C2_Witness ==
    /\ pc = "done" /\ Downloading /\ result.ok
    /\ \E i \in DOMAIN log : IsBinary(i) /\ log[i].source = 2

\* C3: get_runtime with the key present in the cache returns the descriptor
\* get gives (size and digest of the file as it is) without any request and
\* without touching the filesystem; it goes on to download_runtime only when
\* get gave nothing.
C3_CacheHitNoRequest ==
    call.name = "get_runtime" =>
        LET cached == get(fs0, call.language, call.version)
            path == get_path(call.language, call.version)
        IN /\ cached # None =>
                 /\ pc = "done"
                 /\ log = <<>>
                 /\ fs = fs0
                 /\ result = Ok(cached)
                 /\ result.val.size = Len(fs[path].data)
                 /\ result.val.sha256 = compute_hash(fs[path].data)
           /\ (pc # "done" \/ log # <<>> \/ ~result.ok) => cached = None

\* C3 witness: get_runtime answered from the cache.
C3_Witness ==
    /\ pc = "done" /\ call.name = "get_runtime" /\ result.ok /\ log = <<>>
    /\ get(fs0, call.language, call.version) # None

\* The url a loop requests from a source.
UrlOf(kind, source) ==
    CASE kind = "global_manifest" -> global_manifest_url(source)
      [] kind = "runtime_manifest" -> runtime_manifest_url(source, call.language)
      [] kind = "binary" -> build_download_url(source, call.language, call.version)

\* The pc of the loop that makes the requests of a kind.
LoopOf(kind) ==
    CASE kind = "global_manifest" -> "fetch_global_manifest"
      [] kind = "runtime_manifest" -> "fetch_runtime_manifest"
      [] kind = "binary" -> "download"

\* C4: in each fallback loop the j-th request goes to the j-th configured
\* source, every request but the last one of the loop has failed, and a loop
\* that awaits a response awaits the source after the ones already asked.
C4_SourcesInOrder ==
    \A kind \in {"global_manifest", "runtime_manifest", "binary"} :
        LET es == EntriesOf(kind)
        IN /\ Len(es) <= Len(cdn_sources)
           /\ \A j \in DOMAIN es :
                 /\ es[j].source = j
                 /\ es[j].url = UrlOf(kind, cdn_sources[j])
                 /\ j < Len(es) => ~es[j].response.ok
           /\ pc = LoopOf(kind) =>
                 /\ idx = Len(es) + 1
                 /\ \A j \in DOMAIN es : ~es[j].response.ok

\* C4 witness: a loop that asked both sources, the second after the first
\* had failed.
C4_Witness ==
    /\ pc = "done"
    /\ Len(EntriesOf("binary")) = 2
    /\ Len(EntriesOf("runtime_manifest")) = 2

\* Every source was asked in the loop and every one failed.
AllFailed(kind) ==
    LET es == EntriesOf(kind)
    IN es # <<>> /\ \A j \in DOMAIN es : ~es[j].response.ok

\* The error recorded for the last configured source in a loop.
LastSourceError(kind) ==
    LET es == EntriesOf(kind)
    IN Network(es[Len(es)].response.cause,
               UrlOf(kind, cdn_sources[Len(cdn_sources)]))

\* C5: when every source failed in the download loop, or in the global
\* manifest fetch, the call returns the error of the last configured source;
\* the generic error is returned only when no request was made.
C5_LastErrorSurfaced ==
    pc = "done" =>
        /\ \A kind \in {"binary", "global_manifest"} :
              AllFailed(kind) =>
                  /\ Len(EntriesOf(kind)) = Len(cdn_sources)
                  /\ result = Err(LastSourceError(kind))
        /\ (LoaderCall /\ ~result.ok /\ result.err.kind = "Other") =>
              (log = <<>> /\ cdn_sources = <<>>)

\* C5 witness: two sources failed in the download loop with different causes.
C5_Witness ==
    /\ pc = "done"
    /\ AllFailed("binary")
    /\ Len(EntriesOf("binary")) = 2
    /\ EntriesOf("binary")[1].response.cause # EntriesOf("binary")[2].response.cause

\* No source delivered the per-language manifest to download_runtime.
NoManifestDelivered ==
    /\ pc = "done"
    /\ Downloading
    /\ ~(call.name = "get_runtime" /\ result.ok /\ log = <<>>)
    /\ \A i \in DOMAIN log : ~IsManifest(i)

\* C6 as claimed: download_runtime fails with ManifestNotFound whenever no
\* source delivers the per-language manifest.
C6_AsClaimed ==
    NoManifestDelivered => result = Err(ManifestNotFound(to_string(call.language)))

\* C6 amended: when no source delivers the per-language manifest,
\* download_runtime fails with the Network error recorded for the last
\* configured source; it fails with ManifestNotFound only when the source
\* list is empty.
C6_LastManifestErrorSurfaced ==
    NoManifestDelivered =>
        IF cdn_sources = <<>>
        THEN result = Err(ManifestNotFound(to_string(call.language)))
        ELSE /\ Len(log) = Len(cdn_sources)
             /\ result = Err(LastSourceError("runtime_manifest"))

\* C6 witness: both sources failed to deliver the manifest, the last one with
\* a body that is not the expected JSON.
C6_Witness ==
    /\ NoManifestDelivered
    /\ Len(log) = 2
    /\ log[2].response.cause = "decode"

\* C7: a delivered manifest without an entry for the requested version ends
\* download_runtime with VersionNotFound{language, version}; the manifest is
\* the last request of the call (no binary GET) and the filesystem is what it
\* was when the call began.
C7_VersionNotFound ==
    \A m \in DOMAIN log :
        (IsManifest(m) /\ call.version \notin DOMAIN log[m].response.val.versions) =>
            /\ pc = "done"
            /\ m = Len(log)
            /\ EntriesOf("binary") = <<>>
            /\ result = Err(VersionNotFound(to_string(call.language), call.version))
            /\ fs = fs0

\* C7 witness: the second source delivered a manifest that lists another
\* version only.
C7_Witness ==
    /\ pc = "done"
    /\ \E m \in DOMAIN log :
          /\ IsManifest(m)
          /\ m = 2
          /\ call.version \notin DOMAIN log[m].response.val.versions
          /\ DOMAIN log[m].response.val.versions # {}

\* C8: after store(language, version, B) returned a descriptor, get of the
\* key gives a descriptor with the digest of B and the size len(B), equal to
\* the one store returned.
C8_StoreThenGet ==
    (pc = "done" /\ call.name = "store" /\ result.ok) =>
        LET cached == get(fs, call.language, call.version)
        IN /\ cached # None
           /\ cached.sha256 = compute_hash(call.data)
           /\ cached.size = Len(call.data)
           /\ cached = result.val

\* C8 witness: a store of one byte over an entry that held other bytes.
C8_Witness ==
    /\ pc = "done" /\ call.name = "store" /\ result.ok
    /\ Len(call.data) = 1
    /\ get(fs0, call.language, call.version) # None
    /\ get(fs0, call.language, call.version) # get(fs, call.language, call.version)

\* C9: get of a key is present exactly when the latest store, clear or
\* clear_all that concerns the key is a store, and then carries the size and
\* the digest of the bytes of that store.
C9_LatestOperationDecides ==
    \A k \in Keys :
        LET cached == get(fs, k[1], k[2])
        IN IF last_store[k] = None
           THEN cached = None
           ELSE /\ cached # None
                /\ cached.size = Len(last_store[k].data)
                /\ cached.sha256 = compute_hash(last_store[k].data)

\* C9 witness: a store over an entry that another store had written.
C9_Witness ==
    /\ pc = "done" /\ call.name = "store" /\ result.ok
    /\ get(fs0, call.language, call.version) # None
    /\ get(fs0, call.language, call.version).sha256 # compute_hash(call.data)
    /\ \E k \in Keys : last_store[k] = None /\ is_dir(fs, parent(get_path(k[1], k[2])))

C11_ClearAll ==
    (pc = "done" /\ call.name = "clear_all") =>
        /\ result = Ok(<<>>)
        /\ \A k \in Keys : get(fs, k[1], k[2]) = None
        /\ list(fs) = {Ok(<<>>)}
        /\ ~exists(fs0, cache_dir) => fs = fs0

\* C11 witness: clear_all of a cache that held two entries, one of them in a
\* directory below its language directory, and that list did not find empty.
C11_Witness ==
    /\ pc = "done" /\ call.name = "clear_all" /\ result.ok
    /\ get(fs0, "Python", <<"a", "/", "b">>) # None
    /\ get(fs0, "Ruby", <<"1", ".", "0">>) # None
    /\ Ok(<<>>) \notin list(fs0)

\* The keys that hold an entry: stored and not cleared since.
StoredKeys == {k \in Keys : last_store[k] # None}

\* C12: list returns exactly one descriptor for each key that holds an
\* entry, each equal to what get gives for the key, whatever the version
\* string is (the empty string and strings with dots or path separators
\* included).
C12_ListsEveryStoredPair ==
    (pc = "done" /\ call.name = "list") =>
        /\ result.ok
        /\ Len(result.val) = Cardinality(StoredKeys)
        /\ {result.val[i] : i \in DOMAIN result.val}
              = {get(fs, k[1], k[2]) : k \in StoredKeys}

\* A verify_integrity call has returned.
Verified == pc = "done" /\ call.name = "verify_integrity"

\* The file at the descriptor's path holds bytes of the expected digest.
DigestMatches ==
    /\ is_file(fs, call.runtime.path)
    /\ compute_hash(fs[call.runtime.path].data) = call.expected_sha256

\* C13 as claimed: verify_integrity returns Ok exactly when the digest
\* recomputed from the file at runtime.path equals the expected digest, and in
\* every other case, a file removed since included, it fails with
\* IntegrityCheckFailed.
C13_AsClaimed ==
    Verified =>
        IF DigestMatches THEN result = Ok(<<>>)
        ELSE /\ ~result.ok
             /\ result.err.kind = "IntegrityCheckFailed"
             /\ result.err.expected = call.expected_sha256

\* C13 amended: verify_integrity returns Ok exactly when the file at
\* runtime.path can be read and the digest recomputed from it equals the
\* expected digest, whatever digest the descriptor records; a readable file
\* of another digest gives IntegrityCheckFailed{expected, actual}; a path that
\* cannot be read as a file (removed since, or a directory) gives the Io
\* error of the read.
C13_VerifyIntegrity ==
    Verified =>
        LET path == call.runtime.path
        IN /\ result.ok <=> DigestMatches
           /\ (is_file(fs, path) /\ ~DigestMatches) =>
                 result = Err(IntegrityCheckFailed(call.expected_sha256,
                                                   compute_hash(fs[path].data)))
           /\ ~is_file(fs, path) =>
                 (~result.ok /\ result.err.kind = "Io" /\ result.err.path = path)

\* C13 witness: the file the descriptor names is not there any more (its
\* directory is) and the call fails with the Io error of the read.
C13_Witness ==
    /\ Verified
    /\ ~exists(fs, call.runtime.path)
    /\ is_dir(fs, parent(call.runtime.path))
    /\ ~result.ok
    /\ result.err = Io("NotFound", call.runtime.path)

\* A get call has returned.
Got == pc = "done" /\ call.name = "get"

ReadOperations == {"get", "list", "get_path", "compute_sha256", "verify_integrity"}

\* C15: get, list, get_path, compute_sha256 and verify_integrity leave the
\* filesystem exactly as it was when the call began, whether they succeed or
\* fail.
C15_ReadOnly ==
    (pc = "done" /\ call.name \in ReadOperations) => fs = fs0

\* C15 witness: verify_integrity failed on a file of another digest in a
\* cache that holds two entries.
C15_Witness ==
    /\ Verified
    /\ ~result.ok
    /\ result.err.kind = "IntegrityCheckFailed"
    /\ Cardinality({path \in DOMAIN fs : is_file(fs, path)}) = 2

\* handle_get has returned the descriptor of get_runtime.
Fetched == Returned /\ frame.stage = "run" /\ result.ok

\* C16: with force, for every version selector, the entry of the version
\* that is finally resolved is gone from the cache when get_runtime begins,
\* and the descriptor handle_get ends with comes from a binary GET of this
\* run, never from an entry that was there before.
C16_ForceRedownloads ==
    (Fetched /\ frame.force) =>
        /\ get(fs0, frame.language, frame.actual_version) = None
        /\ \E i \in DOMAIN log : IsBinary(i)

\* The entry of handle_get's language in the global manifest its selector
\* was resolved from, or None.
ResolvedFrom ==
    IF frame.manifest = None THEN None
    ELSE get_language(frame.manifest, as_str(frame.language))

IsGlobalManifest(i) == log[i].kind = "global_manifest" /\ log[i].response.ok

\* C18: get_latest_version ends with the first global manifest a source
\* delivers: every request before it failed and none follows it; it returns
\* the latest field of the entry under the canonical name of the language,
\* and ManifestNotFound{language} when the manifest has no such entry.
C18_LatestVersion ==
    call.name = "get_latest_version" =>
        \A m \in DOMAIN log :
            IsGlobalManifest(m) =>
                LET manifest == log[m].response.val
                    name == as_str(call.language)
                IN /\ pc = "done"
                   /\ m = Len(log)
                   /\ \A j \in 1..(m - 1) : ~log[j].response.ok
                   /\ log[m].source = m
                   /\ result = IF name \in DOMAIN manifest.languages
                               THEN Ok(manifest.languages[name].latest)
                               ELSE Err(ManifestNotFound(name))

\* C18 witness: the first of two sources delivered a manifest that has an
\* entry for another language only; the second source was not asked.
C18_Witness ==
    /\ pc = "done"
    /\ call.name = "get_latest_version"
    /\ Len(cdn_sources) = 2
    /\ Len(log) = 1
    /\ IsGlobalManifest(1)
    /\ DOMAIN log[1].response.val.languages = {"ruby"}
    /\ result = Err(ManifestNotFound("python"))

\* A call of list_available, get_latest_version or download_runtime has
\* returned.
Refetching ==
    /\ pc = "done"
    /\ call.name \in {"list_available", "get_latest_version", "download_runtime"}

\* The kind of manifest the call asks for.
ManifestKind ==
    IF call.name = "download_runtime" THEN "runtime_manifest" ELSE "global_manifest"

\* C19 as claimed: every call of list_available, get_latest_version and
\* download_runtime makes at least one manifest request.
C19_AsClaimed ==
    Refetching => \E i \in DOMAIN log : log[i].kind = ManifestKind

\* C19 amended: with at least one configured source every such call begins
\* with a manifest request to the first source, whatever is in the cache from
\* earlier calls, and what it returns comes from a manifest delivered to this
\* call; with no source configured it makes no request and fails.
C19_ManifestRefetched ==
    Refetching =>
        IF cdn_sources = <<>> THEN log = <<>> /\ ~result.ok
        ELSE /\ log # <<>>
             /\ log[1].kind = ManifestKind
             /\ log[1].source = 1
             /\ result.ok =>
                   \E m \in DOMAIN log :
                       /\ log[m].kind = ManifestKind
                       /\ log[m].response.ok
                       /\ call.name = "list_available" =>
                             result.val = log[m].response.val
                       /\ call.name = "get_latest_version" =>
                             result.val = get_language(log[m].response.val,
                                                       as_str(call.language)).latest
                       /\ call.name = "download_runtime" =>
                             result.val.sha256 = Declared(m).sha256

\* C19 witness: download_runtime of a key that an earlier call had left in
\* the cache fetched the manifest again and stored bytes of the digest it now
\* declares, another one than the entry had.
C19_Witness ==
    /\ Refetching
    /\ call.name = "download_runtime"
    /\ result.ok
    /\ get(fs0, call.language, call.version) # None
    /\ get(fs0, call.language, call.version).sha256 # result.val.sha256

\* Both concurrent calls have returned.
BothReturned == \A t \in TaskIds : tasks[t].pc = "returned"

\* The call whose fs::write returned last.
LastWriter == written[Len(written)]

\* C20 as claimed: after both calls have returned, both with a descriptor,
\* the file of the key holds exactly the bytes of the call whose write came
\* last, and get gives their size and digest.
C20_AsClaimed ==
    BothReturned =>
        LET path == get_path(RaceLanguage, RaceVersion)
            cached == get(fs, RaceLanguage, RaceVersion)
        IN /\ \A t \in TaskIds : tasks[t].result.ok
           /\ is_file(fs, path)
           /\ fs[path].data = tasks[LastWriter].data
           /\ cached # None
           /\ cached.size = Len(tasks[LastWriter].data)
           /\ cached.sha256 = compute_hash(tasks[LastWriter].data)

\* C20 amended: both calls return a descriptor; after both have returned get
\* gives the size and the digest of the bytes the file then holds; these are
\* the bytes of the call whose write came last when neither call's fs::write
\* ran while the other was inside its own, or when both wrote the same bytes.
C20_LastWriterUnlessOverlapped ==
    BothReturned =>
        LET path == get_path(RaceLanguage, RaceVersion)
            cached == get(fs, RaceLanguage, RaceVersion)
        IN /\ \A t \in TaskIds : tasks[t].result.ok
           /\ is_file(fs, path)
           /\ cached # None
           /\ cached.size = Len(fs[path].data)
           /\ cached.sha256 = compute_hash(fs[path].data)
           /\ ((\A t \in TaskIds : ~tasks[t].overlapped)
                 \/ tasks[1].data = tasks[2].data) =>
                 fs[path].data = tasks[LastWriter].data

\* C20 witness: the two calls wrote different bytes one after the other, and
\* the file holds the bytes of the second.
C20_Witness ==
    /\ BothReturned
    /\ tasks[1].data # tasks[2].data
    /\ \A t \in TaskIds : ~tasks[t].overlapped
    /\ LastWriter = 1
    /\ Len(tasks[1].data) < Len(tasks[2].data)
    /\ fs[get_path(RaceLanguage, RaceVersion)].data = tasks[1].data

\* A store of the key had opened the file and not yet written all of its
\* bytes when the cache was read, and the file held exactly the bytes it had
\* written so far.
ReadDuringStore(t) ==
    /\ call.tasks[t].pc = "write_all"
    /\ call.file = Some(SubSeq(call.tasks[t].data, 1, call.tasks[t].off))

\* What the cache gave the reader: the descriptor get returned or get_runtime
\* returned without a request, or None.
ReadFromCache ==
    IF pc # "done" \/ call.name \notin {"get", "get_runtime"} \/ log # <<>>
           \/ "tasks" \notin DOMAIN call
    THEN None
    ELSE IF call.name = "get" THEN result
    ELSE IF result.ok THEN result.val ELSE None

\* C21: a get or get_runtime that reads the cache while a store of the same
\* key has written only part of its bytes does not return a descriptor of
\* the partial file.
C21_PartialWritesDetectable ==
    ReadFromCache # None => \A t \in TaskIds : ~ReadDuringStore(t)

\* A parse has returned.
Parsed == pc = "done" /\ call.name = "from_str"

\* The patterns that give a language.
Aliases(language) ==
    UNION {Arms[i].pattern : i \in {j \in DOMAIN Arms : Arms[j].language = language}}

\* The string parsed is, in some letter case, a pattern of some arm.
InAliasTable == \E language \in Language : to_lowercase(call.s) \in Aliases(language)

\* C22: a string that is, in any letter case, the canonical name or an
\* alias of a language parses to that language, which is also what the
\* canonical name itself parses to; the canonical name of every language
\* parses to the language.
C22_AliasesAgree ==
    /\ \A language \in Language :
          from_str(chars(as_str(language))) = Ok(language)
    /\ Parsed =>
          \A language \in Language :
              to_lowercase(call.s) \in Aliases(language) \cup {chars(as_str(language))}
                  => /\ result = Ok(language)
                     /\ result = from_str(chars(as_str(language)))

\* C22 witness: "Node.JS", an alias in mixed case, parsed to NodeJs.
C22_Witness ==
    /\ Parsed
    /\ call.s = <<"N", "o", "d", "e", ".", "J", "S">>
    /\ result = Ok("NodeJs")

RECURSIVE FirstOccurrences(_)
FirstOccurrences(seq) ==
    IF seq = <<>> THEN <<>>
    ELSE LET front == SubSeq(seq, 1, Len(seq) - 1)
             kept == FirstOccurrences(front)
         IN IF \E i \in DOMAIN front : front[i] = seq[Len(seq)] THEN kept
            ELSE Append(kept, seq[Len(seq)])

\* C24: after any sequence of add_version calls on a RuntimeInfo that began
\* with no version, the list holds no version twice and holds the versions
\* passed in the order they were first passed: a call with a version already
\* present changed nothing, a call with a new one appended it.
C24_NoDuplicateVersions ==
    new_info # None =>
        /\ \A i \in DOMAIN new_info.versions : \A j \in DOMAIN new_info.versions :
              new_info.versions[i] = new_info.versions[j] => i = j
        /\ new_info.versions = FirstOccurrences(log)

\* C24 witness: the first version was passed again after a second one, and a
\* third call followed; the list holds the two in the order they first came.
C24_Witness ==
    /\ new_info # None
    /\ Len(log) >= 4
    /\ log[1] = log[3]
    /\ log[1] # log[2]
    /\ new_info.versions = <<log[1], log[2]>>

\* The contents of a given size.
ContentsOfSize(size) == [1..size -> {0, 1}]

\* C25: the size and the digest of the descriptor a store returns are those
\* of one and the same content, also when another store of the key runs at
\* the same time.
C25_SizeAndDigestAgree ==
    \A t \in TaskIds :
        (tasks[t].pc = "returned" /\ tasks[t].result.ok) =>
            \E content \in ContentsOfSize(tasks[t].result.val.size) :
                compute_hash(content) = tasks[t].result.val.sha256

\* Entry i of the log is a manifest request answered with a body that is
\* not JSON of the expected shape.
Malformed(i) ==
    /\ log[i].kind \in {"runtime_manifest", "global_manifest"}
    /\ ~log[i].response.ok
    /\ log[i].response.cause = "decode"

\* C26: a manifest response that cannot be decoded is a failed attempt: the
\* next source, when there is one, is asked next; when the source was the
\* last one the call fails with an error of kind JsonError.
C26_MalformedManifest ==
    \A i \in DOMAIN log :
        Malformed(i) =>
            IF log[i].source < Len(cdn_sources)
            THEN IF i = Len(log)
                 THEN /\ pc = LoopOf(log[i].kind)
                      /\ idx = log[i].source + 1
                      /\ last_error # None
                 ELSE /\ log[i + 1].kind = log[i].kind
                      /\ log[i + 1].source = log[i].source + 1
            ELSE /\ pc = "done"
                 /\ i = Len(log)
                 /\ ~result.ok
                 /\ result.err.kind = "JsonError"

\* Entry i is a successful binary GET whose bytes hash to the digest the
\* manifest of entry m declares, and store of these bytes fails on the
\* filesystem the call began with.
StoreFails(m, i) ==
    /\ IsManifest(m)
    /\ IsBinary(i)
    /\ Declared(m) # None
    /\ compute_hash(log[i].response.val) = Declared(m).sha256
    /\ ~store(fs0, call.language, call.version, log[i].response.val).res.ok

\* C27: when the bytes of a binary GET pass the verification and store fails,
\* download_runtime returns the Io error of store as it is, and the GET is
\* the last request of the call: no further source is asked.
C27_StoreErrorPropagates ==
    \A m \in DOMAIN log : \A i \in DOMAIN log :
        StoreFails(m, i) =>
            LET s == store(fs0, call.language, call.version, log[i].response.val)
            IN /\ pc = "done"
               /\ i = Len(log)
               /\ result = s.res
               /\ result.err.kind = "Io"
               /\ fs = s.fs

\* C27 witness: the first of two sources served the right bytes, store
\* failed on the directory that lies at the path of the key, and the second
\* source was not asked.
C27_Witness ==
    /\ pc = "done"
    /\ Len(cdn_sources) = 2
    /\ \E m \in DOMAIN log : StoreFails(m, Len(log))
    /\ log[Len(log)].source = 1
    /\ result = Err(Io("IsADirectory", get_path(call.language, call.version)))

\* The requests of a kind go to different sources.
OncePerSource(kind) ==
    LET es == EntriesOf(kind)
    IN /\ Len(es) <= Len(cdn_sources)
       /\ \A j \in DOMAIN es : \A k \in DOMAIN es :
             es[j].source = es[k].source => j = k

\* A get_runtime or download_runtime call awaits the response of a request.
AwaitingResponse == pc \in {"fetch_runtime_manifest", "download"}

\* C29: every get_runtime and download_runtime call whose requests all
\* complete returns, and it makes at most one per-language manifest request
\* and at most one binary request to each configured source.
C29_Terminates ==
    /\ [](Downloading => (OncePerSource("runtime_manifest") /\ OncePerSource("binary")))
    /\ AwaitingResponse ~> (pc = "done")

\* C29 witness: a call returned after every source had been asked for the
\* manifest, all but the last in vain, and then every source for the binary.
C29_Witness ==
    /\ pc = "done"
    /\ Downloading
    /\ Len(cdn_sources) = 2
    /\ Len(EntriesOf("runtime_manifest")) = 2
    /\ Len(EntriesOf("binary")) = 2

\* The error kinds download_runtime fails with before it reaches store.
BeforeStore ==
    {"Network", "ManifestNotFound", "VersionNotFound", "IntegrityCheckFailed",
     "Other"}

\* The binary GETs of the call that succeeded.
Binaries == {i \in DOMAIN log : IsBinary(i)}

\* C30: a download_runtime that fails at the manifest step, with
\* VersionNotFound, with IntegrityCheckFailed or with every binary request
\* failed leaves the filesystem as it was when the call began; the
\* filesystem differs only by one store, of the bytes of the one binary GET
\* that succeeded, whose digest is the one the manifest declares.
C30_FailureLeavesCache ==
    (pc = "done" /\ Downloading) =>
        /\ (~result.ok /\ result.err.kind \in BeforeStore) => fs = fs0
        /\ Cardinality(Binaries) <= 1
        /\ fs # fs0 =>
              \E m \in DOMAIN log : \E i \in Binaries :
                  /\ IsManifest(m)
                  /\ compute_hash(log[i].response.val) = Declared(m).sha256
                  /\ fs = store(fs0, call.language, call.version,
                                log[i].response.val).fs

\* C30 witness: the second source served bytes of another digest than the
\* manifest declares while the cache held an entry of the key; the call
\* failed with IntegrityCheckFailed and the entry is as it was.
C30_Witness ==
    /\ pc = "done"
    /\ call.name = "download_runtime"
    /\ ~result.ok
    /\ result.err.kind = "IntegrityCheckFailed"
    /\ log[Len(log)].source = 2
    /\ get(fs0, call.language, call.version) # None
    /\ get(fs, call.language, call.version) = get(fs0, call.language, call.version)
    /\ compute_hash(log[Len(log)].response.val)
          # get(fs0, call.language, call.version).sha256

\* The order the descriptors are grouped in, by canonical name.
EnumerationOrder == <<"nodejs", "python", "ruby", "php", "go", "rust">>

\* The place of a language in that order.
Position(language) ==
    CHOOSE i \in DOMAIN EnumerationOrder : EnumerationOrder[i] = as_str(language)

\* A list call has returned.
Listed == pc = "done" /\ call.name = "list"

\* C28: the descriptors list returns come grouped by language in the order
\* of the enumeration, every descriptor of an earlier language before every
\* descriptor of a later one; without a cache root list returns Ok of the
\* empty sequence, and a language without a directory adds nothing and
\* makes no error.
C28_ListOrder ==
    Listed =>
        /\ result.ok
        /\ \A i \in DOMAIN result.val : \A j \in DOMAIN result.val :
              i < j => Position(result.val[i].language)
                           <= Position(result.val[j].language)
        /\ ~exists(fs, cache_dir) => result = Ok(<<>>)
        /\ \A i \in DOMAIN result.val :
              is_dir(fs, join(cache_dir, <<as_str(result.val[i].language)>>))
        /\ \A k \in Languages \X ListVersions :
              get(fs, k[1], k[2]) # None =>
                  \E i \in DOMAIN result.val : result.val[i] = get(fs, k[1], k[2])

\* C28 witness: two entries of python, the later version first, then one of
\* ruby, in a cache without a directory for nodejs.
C28_Witness ==
    /\ Listed
    /\ result.ok
    /\ Len(result.val) = 3
    /\ result.val[1].language = "Python" /\ result.val[1].version = <<"2">>
    /\ result.val[2].language = "Python"
    /\ result.val[3].language = "Ruby"
    /\ ~exists(fs, join(cache_dir, <<as_str("NodeJs")>>))

\* A store or a clear has returned.
StoredOrCleared == pc = "done" /\ call.name \in {"store", "clear"}

\* What lies outside the cache root.
Outside(tree) == [p \in {q \in DOMAIN tree : ~IsPrefix(cache_dir, q)} |-> tree[p]]

\* C31: store and clear leave get of every other key as it was and leave
\* everything outside the cache root as it was, whatever the version string
\* is.
C31_OnlyOwnKey ==
    StoredOrCleared =>
        /\ \A k \in Languages \X AbsoluteVersions :
              k # <<call.language, call.version>> =>
                  get(fs, k[1], k[2]) = get(fs0, k[1], k[2])
        /\ Outside(fs) = Outside(fs0)

\* The second source delivered the per-language manifest in entry m after the
\* first source had failed the request.
DeliveredBySecond(m) ==
    /\ Downloading
    /\ m = 2
    /\ IsManifest(m)
    /\ log[m].source = 2
    /\ ~log[1].response.ok
    /\ Declared(m) # None

\* C32: when the first source failed the manifest request and the second
\* delivered it, the download loop still begins at the first source: it
\* awaits source 1 before any binary was requested, its first request is the
\* binary url of source 1, and bytes served by source 1 are verified against
\* the digest of the second source's manifest (IntegrityCheckFailed with that
\* digest and an untouched filesystem, or else the result of storing them).
C32_DownloadStartsAtFirstSource ==
    \A m \in DOMAIN log :
        DeliveredBySecond(m) =>
            LET bs == EntriesOf("binary")
                first == cdn_sources[1]
            IN /\ bs = <<>> => (pc = "download" /\ idx = 1)
               /\ bs # <<>> =>
                     /\ bs[1].source = 1
                     /\ bs[1].url = build_download_url(first, call.language,
                                                       call.version)
                     /\ bs[1].response.ok =>
                           LET data == bs[1].response.val
                               expected == Declared(m).sha256
                               actual == compute_hash(data)
                           IN /\ pc = "done"
                              /\ Len(bs) = 1
                              /\ IF actual # expected
                                 THEN /\ result = Err(IntegrityCheckFailed(expected,
                                                                           actual))
                                      /\ fs = fs0
                                 ELSE /\ result = store(fs0, call.language,
                                                        call.version, data).res
                                      /\ fs = store(fs0, call.language,
                                                    call.version, data).fs

\* C32 witness: the second source delivered the manifest, the first source
\* served the binary and it was stored.
C32_Witness ==
    /\ pc = "done"
    /\ Len(log) = 3
    /\ DeliveredBySecond(2)
    /\ result.ok
    /\ IsBinary(3)
    /\ log[3].source = 1

\* download_runtime ran: the call is download_runtime, or a get_runtime that
\* did not find the key in the cache.
RanDownload ==
    /\ pc = "done"
    /\ Downloading
    /\ (call.name = "get_runtime" => get(fs0, call.language, call.version) = None)

\* C33: download_runtime never returns Other("All CDN sources failed"). With
\* an empty source list it returns ManifestNotFound without a request and the
\* download loop is never entered; with sources, a download loop that was
\* entered ends with a served binary or with the recorded error of the last
\* request.
C33_NeverAllSourcesFailed ==
    /\ pc = "download" => cdn_sources # <<>>
    /\ RanDownload =>
          LET bs == EntriesOf("binary")
          IN /\ result # Err(Other("All CDN sources failed"))
             /\ cdn_sources = <<>> =>
                   /\ result = Err(ManifestNotFound(to_string(call.language)))
                   /\ log = <<>>
                   /\ fs = fs0
             /\ bs # <<>> =>
                   \/ bs[Len(bs)].response.ok
                   \/ result = Err(Network(bs[Len(bs)].response.cause,
                                           bs[Len(bs)].url))

\* C33 witness: download_runtime of a loader without sources has returned.
C33_Witness ==
    /\ RanDownload
    /\ cdn_sources = <<>>
    /\ result = Err(ManifestNotFound(to_string(call.language)))

\* What download_runtime returns and leaves on disk once its download loop
\* has ended, from the declared digest, the filesystem at the call and the
\* responses of the sources alone.
OutcomeOf(sha256) ==
    LET bs == EntriesOf("binary")
        last == bs[Len(bs)]
        stored == store(fs0, call.language, call.version, last.response.val)
        actual == compute_hash(last.response.val)
    IN IF ~last.response.ok
       THEN [res |-> Err(Network(last.response.cause, last.url)), fs |-> fs0]
       ELSE IF actual # sha256
       THEN [res |-> Err(IntegrityCheckFailed(sha256, actual)), fs |-> fs0]
       ELSE [res |-> stored.res, fs |-> stored.fs]

\* C34: of the version entry a manifest holds, download_runtime uses the
\* sha256 field only.  Whatever the entry's url, size, file, released, wasi
\* and features are, the binary is requested at the urls built from source,
\* language and version, and the call returns what the declared digest, the
\* filesystem and the responses determine; bytes are stored whether or not
\* their length is the declared size.
C34_OnlySha256Matters ==
    \A m \in DOMAIN log :
        (Downloading /\ IsManifest(m) /\ Declared(m) # None) =>
            LET bs == EntriesOf("binary")
            IN /\ \A j \in DOMAIN bs :
                     bs[j].url = build_download_url(cdn_sources[j], call.language,
                                                    call.version)
               /\ pc = "done" =>
                     /\ result = OutcomeOf(Declared(m).sha256).res
                     /\ fs = OutcomeOf(Declared(m).sha256).fs

\* C34 witness: bytes were stored whose length is not the declared size, the
\* entry naming a url that was never requested.
C34_Witness ==
    /\ pc = "done"
    /\ Downloading
    /\ result.ok
    /\ \E m \in DOMAIN log :
          /\ IsManifest(m)
          /\ Declared(m) # None
          /\ Declared(m).size # result.val.size
          /\ \A j \in DOMAIN log : log[j].url # Declared(m).url

====
